---------------------------- MODULE Spec2Model ----------------------------
(***************************************************************************)
(* Real-time game session engine of the backgammon platform:               *)
(*   - rule engine            (backend/src/services/gameService.ts, the    *)
(*                             shared-home-quadrant revision)              *)
(*   - dice-duel state machine (backend/src/services/diceGameService.ts)   *)
(*   - socket handlers        (backend/src/socket/gameHandler.ts, the      *)
(*                             revision with both game modes)              *)
(*                                                                         *)
(* Every `await` of a handler is a suspension point: the handler's record  *)
(* stays in a slot of `hs` with its program counter and locals, and any    *)
(* other handler may run its next synchronous section in between.          *)
(***************************************************************************)
EXTENDS Integers, Sequences, FiniteSets, TLC

(***************************************************************************)
(* Bounds of the exploration                                               *)
(***************************************************************************)
\* handler invocations that may be in flight (suspended) at the same time
MaxInflight == 2
\* accepted rolls and moves explored from a late board-game position
MaxActs == 3
\* accepted rolls and moves explored from an early board-game position
MaxActsFresh == 2
\* accepted dice-duel rolls explored per behaviour
MaxRolls == 3
\* accepted moves explored in behaviours with disconnects
MaxActsForfeit == 2
\* accepted rolls explored in behaviours with disconnects
MaxRollsForfeit == 1
\* accepted rolls and moves explored from the endgame position
MaxActsEndgame == 4
\* ledger (game_moves) inserts that may fail per behaviour
MaxLedgerFailures == 1
\* applications of the rule engine explored from each board
MaxEngineCalls == 1

(***************************************************************************)
(* Encodings of the duck-typed move payload and of null                    *)
(***************************************************************************)
\* move.from === 'bar'
BAR == 99
\* move.to === 'off'
OFF == 0 - 99
\* diceValue === undefined
NoDie == 0
\* null of the number-valued fields (rolls, round_winner, game_winner)
Null == 0 - 1

Players == {1, 2}
PointIdx == 0..23

opponentOf(player) == IF player = 1 THEN 2 ELSE 1

(***************************************************************************)
(* Board model and rule engine                                             *)
(***************************************************************************)
\* shared/src/types.ts BackgammonBoard: points[i] = <<player1, player2>>,
\* bar and borne_off indexed by player number.  The fields dice,
\* current_player and game_id of the board object are written once at
\* creation and never read by the server, so they are left out.
initializeBoard ==
  [ points    |-> [i \in PointIdx |->
                     CASE i = 6  -> <<0, 5>>
                       [] i = 8  -> <<3, 0>>
                       [] i = 12 -> <<5, 0>>
                       [] i = 17 -> <<0, 2>>
                       [] i = 5  -> <<5, 0>>
                       [] i = 3  -> <<0, 3>>
                       [] i = 18 -> <<0, 5>>
                       [] i = 23 -> <<2, 0>>
                       [] OTHER  -> <<0, 0>>],
    bar       |-> <<0, 0>>,
    borne_off |-> <<0, 0>> ]

\* rollDice(): two independent values of Math.floor(Math.random()*6)+1
DieValues == 1..6
rollDice == DieValues \X DieValues

isInHomeBoard(pointIndex, player) == pointIndex >= 0 /\ pointIndex <= 5

\* a home test that forgets the checkers on the bar
allInHomeBoardIgnoresBar(board, player) ==
  \A i \in PointIdx : (i < 0 \/ i > 5) => board.points[i][player] = 0
allInHomeBoard(board, player) ==
  /\ \A i \in PointIdx : (i < 0 \/ i > 5) => board.points[i][player] = 0
  /\ board.bar[player] = 0

\* a legality check that lets a checker enter from the bar on any open entry
\* point, whatever the die
isValidMoveAnyEntry(board, from, to, player, diceValue) ==
  IF from = BAR THEN
    /\ to # OFF
    /\ to >= 18 /\ to <= 23
    /\ board.points[to][opponentOf(player)] <= 1
    /\ board.bar[player] # 0
  ELSE IF to = OFF THEN
    /\ allInHomeBoard(board, player)
    /\ isInHomeBoard(from, player)
    /\ board.points[from][player] # 0
    /\ (diceValue # NoDie =>
          LET pointNumber == from + 1 IN
            \/ pointNumber = diceValue
            \/ /\ pointNumber < diceValue
               /\ \A i \in (from + 1)..5 : board.points[i][player] = 0)
  ELSE
    /\ from >= 0 /\ from <= 23 /\ to >= 0 /\ to <= 23
    /\ board.points[from][player] # 0
    /\ to < from
    /\ board.points[to][opponentOf(player)] <= 1
    /\ (diceValue # NoDie => from - to = diceValue)

\* a legality check that lets a checker land on a point the opponent holds
isValidMoveOntoHeldPoint(board, from, to, player, diceValue) ==
  IF from = BAR THEN
    /\ to # OFF
    /\ to >= 18 /\ to <= 23
    /\ board.points[to][opponentOf(player)] <= 1
    /\ board.bar[player] # 0
    /\ (diceValue # NoDie => to = (24 - diceValue) - 1)
  ELSE IF to = OFF THEN
    /\ allInHomeBoard(board, player)
    /\ isInHomeBoard(from, player)
    /\ board.points[from][player] # 0
    /\ (diceValue # NoDie =>
          LET pointNumber == from + 1 IN
            \/ pointNumber = diceValue
            \/ /\ pointNumber < diceValue
               /\ \A i \in (from + 1)..5 : board.points[i][player] = 0)
  ELSE
    /\ from >= 0 /\ from <= 23 /\ to >= 0 /\ to <= 23
    /\ board.points[from][player] # 0
    /\ to < from
    /\ (diceValue # NoDie => from - to = diceValue)
isValidMove(board, from, to, player, diceValue) ==
  IF from = BAR THEN
    /\ to # OFF
    /\ to >= 18 /\ to <= 23
    /\ board.points[to][opponentOf(player)] <= 1
    /\ board.bar[player] # 0
    /\ (diceValue # NoDie => to = (24 - diceValue) - 1)
  ELSE IF to = OFF THEN
    /\ allInHomeBoard(board, player)
    /\ isInHomeBoard(from, player)
    /\ board.points[from][player] # 0
    /\ (diceValue # NoDie =>
          LET pointNumber == from + 1 IN
            \/ pointNumber = diceValue
            \/ /\ pointNumber < diceValue
               /\ \A i \in (from + 1)..5 : board.points[i][player] = 0)
  ELSE
    /\ from >= 0 /\ from <= 23 /\ to >= 0 /\ to <= 23
    /\ board.points[from][player] # 0
    /\ to < from
    /\ board.points[to][opponentOf(player)] <= 1
    /\ (diceValue # NoDie => from - to = diceValue)

\* one player's count on one point replaced
setPoint(points, i, player, n) ==
  [points EXCEPT ![i] = [@ EXCEPT ![player] = n]]

\* a hit that takes the opposing checker off the point and forgets the bar
hitBlotForgetsBar(board, to, player) ==
  LET opp == opponentOf(player) IN
    IF board.points[to][opp] = 1
    THEN [board EXCEPT !.points = setPoint(@, to, opp, 0)]
    ELSE board

\* a hit that leaves the single opposing checker where it is
hitBlotSparesChecker(board, to, player) == board

\* a hit that puts the opposing checker on the bar and leaves it on the point
hitBlotKeepsChecker(board, to, player) ==
  LET opp == opponentOf(player) IN
    IF board.points[to][opp] = 1
    THEN [board EXCEPT !.bar = [@ EXCEPT ![opp] = @ + 1]]
    ELSE board
\* the hit of makeMove: a single opposing checker on `to` goes to the bar
hitBlot(board, to, player) ==
  LET opp == opponentOf(player) IN
    IF board.points[to][opp] = 1
    THEN [board EXCEPT !.points = setPoint(@, to, opp, 0),
                       !.bar = [@ EXCEPT ![opp] = @ + 1]]
    ELSE board

makeMove(board, from, to, player, diceValue) ==
  IF from = BAR THEN
    IF to = OFF THEN board
    ELSE LET b1 == [board EXCEPT !.bar = [@ EXCEPT ![player] = @ - 1]]
             b2 == hitBlot(b1, to, player)
         IN [b2 EXCEPT !.points = setPoint(@, to, player, @[to][player] + 1)]
  ELSE IF to = OFF THEN
    [board EXCEPT !.points = setPoint(@, from, player, @[from][player] - 1),
                  !.borne_off = [@ EXCEPT ![player] = @ + 1]]
  ELSE
    LET b1 == [board EXCEPT
                 !.points = setPoint(@, from, player, @[from][player] - 1)]
        b2 == hitBlot(b1, to, player)
    IN [b2 EXCEPT !.points = setPoint(@, to, player, @[to][player] + 1)]

\* a copy that shares the nested objects with the argument, as the spread
\* `{ ...board }` would
copySharesShallow(board) == {"points", "bar", "borne_off"}

\* the parts of newBoard that are the same objects as the argument's after
\* `JSON.parse(JSON.stringify(board))`: none, every object is built anew
copyShares(board) == {}

\* what the object passed as `board` holds once makeMove has returned: the
\* writes of makeMove go to newBoard and reach the argument only through
\* the parts the two share
inputAfterMakeMove(board, from, to, player, diceValue) ==
  LET newBoard == makeMove(board, from, to, player, diceValue) IN
    [ points    |-> IF "points" \in copyShares(board)
                    THEN newBoard.points ELSE board.points,
      bar       |-> IF "bar" \in copyShares(board)
                    THEN newBoard.bar ELSE board.bar,
      borne_off |-> IF "borne_off" \in copyShares(board)
                    THEN newBoard.borne_off ELSE board.borne_off ]

checkWinCondition(board) ==
  IF board.borne_off[1] = 15 THEN 1
  ELSE IF board.borne_off[2] = 15 THEN 2
  ELSE Null

\* usedDice[k] of a JS array: undefined (falsy) beyond its length
usedAt(usedDice, k) == IF k <= Len(usedDice) THEN usedDice[k] ELSE FALSE

\* canPlayerMove dereferences dice[0] / dice[1]; with dice === null that is
\* a TypeError as soon as one die is looked at.
canPlayerMoveThrows(board, player, dice, usedDice) ==
  /\ dice = <<>>
  /\ \/ board.bar[player] > 0
     \/ \E i \in PointIdx : board.points[i][player] > 0

\* a search for a move that looks at the points even when the player has a
\* checker on the bar
canPlayerMoveIgnoresBar(board, player, dice, usedDice) ==
  IF dice = <<>> THEN FALSE
  ELSE
    \E i \in PointIdx : \E k \in 1..2 :
       /\ board.points[i][player] > 0
       /\ ~usedAt(usedDice, k)
       /\ \/ LET to == i - dice[k] IN
               to >= 0 /\ to < 24 /\ isValidMove(board, i, to, player, dice[k])
          \/ /\ isInHomeBoard(i, player) /\ allInHomeBoard(board, player)
             /\ isValidMove(board, i, OFF, player, dice[k])
canPlayerMove(board, player, dice, usedDice) ==
  IF dice = <<>> THEN FALSE
  ELSE IF board.bar[player] > 0 THEN
    \E i \in 18..23 : \E k \in 1..2 :
       ~usedAt(usedDice, k) /\ isValidMove(board, BAR, i, player, dice[k])
  ELSE
    \E i \in PointIdx : \E k \in 1..2 :
       /\ board.points[i][player] > 0
       /\ ~usedAt(usedDice, k)
       /\ \/ LET to == i - dice[k] IN
               to >= 0 /\ to < 24 /\ isValidMove(board, i, to, player, dice[k])
          \/ /\ isInHomeBoard(i, player) /\ allInHomeBoard(board, player)
             /\ isValidMove(board, i, OFF, player, dice[k])

(***************************************************************************)
(* Dice-duel state machine                                                 *)
(***************************************************************************)
initializeDiceGame ==
  [ player1_score |-> 0, player2_score |-> 0, current_round |-> 1,
    player1_roll |-> Null, player2_roll |-> Null, current_player |-> 1,
    round_winner |-> Null, game_winner |-> Null ]

\* rollDice() of the dice-duel service: one value in 1..6
rollSingleDice == DieValues

\* a round resolution that lets the winner of the round start the next one
resolveRoundWinnerStarts(st) ==
  LET s1 == IF st.player1_roll > st.player2_roll
            THEN [st EXCEPT !.round_winner = 1, !.player1_score = @ + 1]
            ELSE IF st.player2_roll > st.player1_roll
            THEN [st EXCEPT !.round_winner = 2, !.player2_score = @ + 1]
            ELSE [st EXCEPT !.round_winner = 0]
  IN IF s1.player1_score >= 3 THEN [s1 EXCEPT !.game_winner = 1]
     ELSE IF s1.player2_score >= 3 THEN [s1 EXCEPT !.game_winner = 2]
     ELSE [s1 EXCEPT !.current_round = @ + 1,
                     !.player1_roll = Null,
                     !.player2_roll = Null,
                     !.round_winner = Null,
                     !.current_player =
                        IF s1.round_winner = 0 THEN @ ELSE s1.round_winner]

\* the round resolution of processDiceRoll, once both rolls are present
resolveRound(st) ==
  LET s1 == IF st.player1_roll > st.player2_roll
            THEN [st EXCEPT !.round_winner = 1, !.player1_score = @ + 1]
            ELSE IF st.player2_roll > st.player1_roll
            THEN [st EXCEPT !.round_winner = 2, !.player2_score = @ + 1]
            ELSE [st EXCEPT !.round_winner = 0]
  IN IF s1.player1_score >= 3 THEN [s1 EXCEPT !.game_winner = 1]
     ELSE IF s1.player2_score >= 3 THEN [s1 EXCEPT !.game_winner = 2]
     ELSE [s1 EXCEPT !.current_round = @ + 1,
                     !.player1_roll = Null,
                     !.player2_roll = Null,
                     !.round_winner = Null,
                     !.current_player =
                        IF (s1.current_round + 1) % 2 = 0 THEN 2 ELSE 1]

\* a roll processing that leaves the turn with the player who rolled first
processDiceRollKeepsTurn(gameState, player, roll) ==
  LET s0 == IF player = 1 THEN [gameState EXCEPT !.player1_roll = roll]
                          ELSE [gameState EXCEPT !.player2_roll = roll]
  IN IF s0.player1_roll # Null /\ s0.player2_roll # Null
     THEN resolveRound(s0)
     ELSE s0

processDiceRoll(gameState, player, roll) ==
  LET s0 == IF player = 1 THEN [gameState EXCEPT !.player1_roll = roll]
                          ELSE [gameState EXCEPT !.player2_roll = roll]
  IN IF s0.player1_roll # Null /\ s0.player2_roll # Null
     THEN resolveRound(s0)
     ELSE [s0 EXCEPT !.current_player = opponentOf(player)]

(***************************************************************************)
(* Session manager: the world of the handlers                              *)
(***************************************************************************)
\* authenticated users: the two participants of every match and an outsider
Users == {"u1", "u2", "u3"}
NoUser == "none"
\* one connection per user; socket.userId is fixed by the auth middleware
Socks == {"s1", "s2", "s3"}
userOf(s) == CASE s = "s1" -> "u1" [] s = "s2" -> "u2" [] OTHER -> "u3"

\* rows of the games table: gA is a board game, gB a dice duel; gX is an id
\* with no row
Games == {"gA", "gB"}
GameIds == Games \cup {"gX"}
NoGame == "none"
game_type(g) == IF g = "gB" THEN "dice" ELSE "backgammon"
player1_id(g) == "u1"
player2_id(g) == "u2"

Slots == 1..MaxInflight

VARIABLES
  dbGames,          \* games table: status, winner_id, points_awarded per row
  dbPoints,         \* users table: points per user
  roomObjs,         \* the room objects ever created per match id (the heap)
  backgammonRooms,  \* match id -> index into roomObjs, 0 when the map has no entry
  diceRooms,        \* match id -> index into roomObjs, 0 when the map has no entry
  socketToGame,     \* connection -> match id it last joined
  members,          \* socket.io room `game:<id>`: the connections in it
  connected,        \* connection still open
  hs,               \* handler invocations suspended on an await, per slot
  out,              \* messages emitted by the last step
  last,             \* which handler section the last step ran
  budget,           \* accepted rolls and moves still explored in this behaviour
  ledgerFailures    \* failed game_moves inserts so far

vars == <<dbGames, dbPoints, roomObjs, backgammonRooms, diceRooms, socketToGame,
          members, connected, hs, out, last, budget, ledgerFailures>>

Idle == [pc |-> "idle"]
FreeSlots == {i \in Slots : hs[i].pc = "idle"}
\* a new invocation takes the lowest free slot
NewSlot == CHOOSE i \in FreeSlots : \A j \in FreeSlots : i <= j

\* room.player1Id === userId ? 1 : 2
playerNumberOf(g, userId) == IF player1_id(g) = userId THEN 1 ELSE 2
userOfPlayer(g, n) == IF n = 1 THEN player1_id(g) ELSE player2_id(g)

\* the map a match id lives in and the object a handler's `room` refers to
roomRef(g) == IF game_type(g) = "dice" THEN diceRooms[g] ELSE backgammonRooms[g]
roomOf(g, ref) == roomObjs[g][ref]

ErrorMsg(s, message) == [to |-> s, ev |-> "error", message |-> message]
Step(op, section, s, g) == [op |-> op, section |-> section, sock |-> s, game |-> g]
\* `last` and `out` describe the step just taken; they are cleared (Flush)
\* before the next handler section runs
Quiet == Step("none", "none", "none", NoGame)
Ready == last = Quiet

newBackgammonRoom ==
  [ board |-> initializeBoard, currentPlayer |-> 1, dice |-> <<>>, diceUsed |-> <<>> ]
newDiceRoom == [ gameState |-> initializeDiceGame ]

\* a game-state that tells every recipient it is their turn
GameStateMsgAllCanMove(s, g, room, withUsed) ==
  [ to |-> s, ev |-> "game-state", game |-> g, board |-> room.board,
    currentPlayer |-> room.currentPlayer, dice |-> room.dice,
    canMove |-> TRUE,
    usedDice |-> IF withUsed THEN room.diceUsed ELSE <<>> ]
\* game-state / dice-game-state as sent to one recipient
GameStateMsg(s, g, room, withUsed) ==
  [ to |-> s, ev |-> "game-state", game |-> g, board |-> room.board,
    currentPlayer |-> room.currentPlayer, dice |-> room.dice,
    canMove |-> (room.currentPlayer = playerNumberOf(g, userOf(s))),
    usedDice |-> IF withUsed THEN room.diceUsed ELSE <<>> ]
DiceStateMsg(s, g, room, canRoll) ==
  [ to |-> s, ev |-> "dice-game-state", game |-> g, gameState |-> room.gameState,
    canRoll |-> canRoll ]

(***************************************************************************)
(* The store.  A query or write takes effect in the step that issues it;   *)
(* its reply reaches the awaiting handler in a later step.                 *)
(***************************************************************************)
\* db.update(games).set({status: 'completed', winner_id, points_awarded})
settleGame(games, g, winnerId, points) ==
  [games EXCEPT ![g] = [status |-> "completed", winner_id |-> winnerId,
                        points_awarded |-> points]]

\* db.update(users).set({points: winner.points + award}), winner read earlier
awardPoints(points, winnerId, readPoints, award) ==
  [points EXCEPT ![winnerId] = readPoints + award]

(***************************************************************************)
(* join-game                                                               *)
(***************************************************************************)
\* the handler up to `await db.select().from(games)`
JoinStart(s, g) ==
  /\ Ready
  /\ connected[s]
  /\ FreeSlots # {}
  /\ hs' = [hs EXCEPT ![NewSlot] =
              [ pc |-> "join_select", op |-> "join", sock |-> s, game |-> g,
                found |-> (g \in Games),
                status |-> IF g \in Games THEN dbGames[g].status ELSE "none" ]]
  /\ out' = {}
  /\ last' = Step("join", "start", s, g)
  /\ UNCHANGED <<dbGames, dbPoints, roomObjs, backgammonRooms, diceRooms,
                 socketToGame, members, connected, budget, ledgerFailures>>

\* a join check that lets every authenticated user in
joinErrorSkipsAuthorization(h) ==
  IF ~h.found THEN "Game not found"
  ELSE IF h.status # "active" THEN "Game is not active"
  ELSE ""
\* why the join is refused, "" when it is not
joinError(h) ==
  IF ~h.found THEN "Game not found"
  ELSE IF player1_id(h.game) # userOf(h.sock) /\ player2_id(h.game) # userOf(h.sock)
       THEN "Not authorized"
  ELSE IF h.status # "active" THEN "Game is not active"
  ELSE ""

JoinRejected(i) ==
  LET h == hs[i] IN
  /\ Ready
  /\ h.pc = "join_select"
  /\ joinError(h) # ""
  /\ out' = {ErrorMsg(h.sock, joinError(h))}
  /\ last' = Step("join", "rejected", h.sock, h.game)
  /\ hs' = [hs EXCEPT ![i] = Idle]
  /\ UNCHANGED <<dbGames, dbPoints, roomObjs, backgammonRooms, diceRooms,
                 socketToGame, members, connected, budget, ledgerFailures>>

\* socket.join, socketToGame.set, room created when the map has none, the
\* state sent to the joiner and player-joined to the others in the room
JoinAccepted(i) ==
  LET h == hs[i]
      g == h.game
      s == h.sock
      create == roomRef(g) = 0
      objs == IF create
              THEN [roomObjs EXCEPT ![g] =
                      Append(@, IF game_type(g) = "dice" THEN newDiceRoom
                                ELSE newBackgammonRoom)]
              ELSE roomObjs
      ref == IF create THEN Len(objs[g]) ELSE roomRef(g)
      room == objs[g][ref]
      mem == IF connected[s] THEN members[g] \cup {s} ELSE members[g]
  IN
  /\ Ready
  /\ h.pc = "join_select"
  /\ joinError(h) = ""
  /\ members' = [members EXCEPT ![g] = mem]
  /\ socketToGame' = [socketToGame EXCEPT ![s] = g]
  /\ roomObjs' = objs
  /\ IF game_type(g) = "dice"
     THEN /\ diceRooms' = [diceRooms EXCEPT ![g] = ref]
          /\ UNCHANGED backgammonRooms
     ELSE /\ backgammonRooms' = [backgammonRooms EXCEPT ![g] = ref]
          /\ UNCHANGED diceRooms
  /\ out' = { IF game_type(g) = "dice"
              THEN DiceStateMsg(s, g, room,
                     room.gameState.current_player = playerNumberOf(g, userOf(s))
                       /\ room.gameState.game_winner = Null)
              ELSE GameStateMsg(s, g, room, FALSE) }
             \cup { [to |-> t, ev |-> "player-joined", game |-> g, userId |-> userOf(s)]
                      : t \in mem \ {s} }
  /\ last' = Step("join", "accepted", s, g)
  /\ hs' = [hs EXCEPT ![i] = Idle]
  /\ UNCHANGED <<dbGames, dbPoints, connected, budget, ledgerFailures>>

(***************************************************************************)
(* disconnect                                                              *)
(***************************************************************************)
\* the connection closes, leaves its socket.io rooms, and the handler runs
\* up to `await db.select().from(games)`; with no tracked match it returns
DisconnectUntracked(s) ==
  /\ Ready
  /\ connected[s]
  /\ socketToGame[s] = NoGame
  /\ connected' = [connected EXCEPT ![s] = FALSE]
  /\ members' = [g \in Games |-> members[g] \ {s}]
  /\ out' = {}
  /\ last' = Step("disconnect", "untracked", s, NoGame)
  /\ UNCHANGED <<dbGames, dbPoints, roomObjs, backgammonRooms, diceRooms,
                 socketToGame, hs, budget, ledgerFailures>>

DisconnectStart(s) ==
  /\ Ready
  /\ connected[s]
  /\ socketToGame[s] # NoGame
  /\ FreeSlots # {}
  /\ connected' = [connected EXCEPT ![s] = FALSE]
  /\ members' = [g \in Games |-> members[g] \ {s}]
  /\ hs' = [hs EXCEPT ![NewSlot] =
              [ pc |-> "disc_select", op |-> "disconnect", sock |-> s,
                game |-> socketToGame[s],
                status |-> dbGames[socketToGame[s]].status ]]
  /\ out' = {}
  /\ last' = Step("disconnect", "start", s, socketToGame[s])
  /\ UNCHANGED <<dbGames, dbPoints, roomObjs, backgammonRooms, diceRooms,
                 socketToGame, budget, ledgerFailures>>

\* the points a forfeit awards
forfeitPoints(g) == IF game_type(g) = "dice" THEN 10 ELSE 20

\* no room in the map, or the match read as not active: only the tracking
\* entry is dropped
DisconnectNoForfeit(i) ==
  LET h == hs[i] IN
  /\ Ready
  /\ h.pc = "disc_select"
  /\ roomRef(h.game) = 0 \/ h.status # "active"
  /\ socketToGame' = [socketToGame EXCEPT ![h.sock] = NoGame]
  /\ out' = {}
  /\ last' = Step("disconnect", "no_forfeit", h.sock, h.game)
  /\ hs' = [hs EXCEPT ![i] = Idle]
  /\ UNCHANGED <<dbGames, dbPoints, roomObjs, backgammonRooms, diceRooms,
                 members, connected, budget, ledgerFailures>>

\* the opponent is made winner: `await db.update(games)`
DisconnectForfeit(i) ==
  LET h == hs[i]
      g == h.game
      winnerNumber == opponentOf(playerNumberOf(g, userOf(h.sock)))
      winnerId == userOfPlayer(g, winnerNumber)
  IN
  /\ Ready
  /\ h.pc = "disc_select"
  /\ roomRef(g) # 0 /\ h.status = "active"
  /\ dbGames' = settleGame(dbGames, g, winnerId, forfeitPoints(g))
  /\ hs' = [hs EXCEPT ![i] =
              [ pc |-> "disc_update", op |-> "disconnect", sock |-> h.sock,
                game |-> g, ref |-> roomRef(g), winnerNumber |-> winnerNumber,
                winnerId |-> winnerId, points |-> 0 ]]
  /\ out' = {}
  /\ last' = Step("disconnect", "forfeit", h.sock, g)
  /\ UNCHANGED <<dbPoints, roomObjs, backgammonRooms, diceRooms, socketToGame,
                 members, connected, budget, ledgerFailures>>

\* `await db.select().from(users)`: the winner's row is read
DisconnectReadWinner(i) ==
  LET h == hs[i] IN
  /\ Ready
  /\ h.pc = "disc_update"
  /\ hs' = [hs EXCEPT ![i] = [h EXCEPT !.pc = "disc_winner",
                                       !.points = dbPoints[h.winnerId]]]
  /\ out' = {}
  /\ last' = Step("disconnect", "read_winner", h.sock, h.game)
  /\ UNCHANGED <<dbGames, dbPoints, roomObjs, backgammonRooms, diceRooms,
                 socketToGame, members, connected, budget, ledgerFailures>>

\* `await db.update(users)`: the points read plus the award are written
DisconnectAward(i) ==
  LET h == hs[i] IN
  /\ Ready
  /\ h.pc = "disc_winner"
  /\ dbPoints' = awardPoints(dbPoints, h.winnerId, h.points, forfeitPoints(h.game))
  /\ hs' = [hs EXCEPT ![i] = [h EXCEPT !.pc = "disc_award"]]
  /\ out' = {}
  /\ last' = Step("disconnect", "award", h.sock, h.game)
  /\ UNCHANGED <<dbGames, roomObjs, backgammonRooms, diceRooms,
                 socketToGame, members, connected, budget, ledgerFailures>>

\* game-over / dice-game-over with reason opponent_left, then the clean-up
DisconnectFinish(i) ==
  LET h == hs[i]
      g == h.game
  IN
  /\ Ready
  /\ h.pc = "disc_award"
  /\ out' = { [ to |-> t,
                ev |-> IF game_type(g) = "dice" THEN "dice-game-over" ELSE "game-over",
                game |-> g, winner |-> h.winnerNumber, winnerId |-> h.winnerId,
                reason |-> "opponent_left" ] : t \in members[g] }
  /\ backgammonRooms' = [backgammonRooms EXCEPT ![g] = 0]
  /\ diceRooms' = [diceRooms EXCEPT ![g] = 0]
  /\ socketToGame' = [socketToGame EXCEPT ![h.sock] = NoGame]
  /\ last' = Step("disconnect", "finish", h.sock, g)
  /\ hs' = [hs EXCEPT ![i] = Idle]
  /\ UNCHANGED <<dbGames, dbPoints, roomObjs, members, connected, budget,
                 ledgerFailures>>

(***************************************************************************)
(* roll-dice                                                               *)
(*                                                                         *)
(* The first await of roll-dice and make-move reads the games row, of      *)
(* which only game_type (never written) is used; a handler suspended there *)
(* has touched nothing, so the event is taken when that read returns.      *)
(*                                                                         *)
(* A handler suspended on its ledger insert carries `before`, the room as  *)
(* the handler found it: a history value that no handler reads.            *)
(***************************************************************************)
\* why the roll is refused, "" when it is not
rollError(s, g) ==
  IF g \notin Games THEN "Game not found"
  ELSE IF roomRef(g) = 0 THEN "Game room not found"
  ELSE LET room == roomOf(g, roomRef(g))
           playerNumber == playerNumberOf(g, userOf(s))
       IN IF game_type(g) = "dice" THEN
            IF room.gameState.current_player # playerNumber THEN "Not your turn"
            ELSE IF room.gameState.game_winner # Null THEN "Game is over"
            ELSE IF \/ playerNumber = 1 /\ room.gameState.player1_roll # Null
                    \/ playerNumber = 2 /\ room.gameState.player2_roll # Null
                 THEN "You already rolled this round"
            ELSE ""
          ELSE
            IF room.currentPlayer # playerNumber THEN "Not your turn"
            ELSE IF room.dice # <<>> THEN "Dice already rolled"
            ELSE ""

RollRejected(s, g) ==
  /\ Ready
  /\ connected[s]
  /\ rollError(s, g) # ""
  /\ out' = {ErrorMsg(s, rollError(s, g))}
  /\ last' = Step("roll", "rejected", s, g)
  /\ UNCHANGED <<dbGames, dbPoints, roomObjs, backgammonRooms, diceRooms,
                 socketToGame, members, connected, hs, budget, ledgerFailures>>

\* board game: dice set, both marked unused, then `await db.insert(game_moves)`
RollBackgammon(s, g, dice) ==
  /\ Ready
  /\ connected[s]
  /\ rollError(s, g) = ""
  /\ game_type(g) = "backgammon"
  /\ budget > 0
  /\ FreeSlots # {}
  /\ budget' = budget - 1
  /\ roomObjs' = [roomObjs EXCEPT ![g][roomRef(g)] =
                    [@ EXCEPT !.dice = dice, !.diceUsed = <<FALSE, FALSE>>]]
  /\ hs' = [hs EXCEPT ![NewSlot] =
              [ pc |-> "roll_insert", op |-> "roll", sock |-> s, game |-> g,
                ref |-> roomRef(g),
                playerNumber |-> playerNumberOf(g, userOf(s)),
                before |-> roomOf(g, roomRef(g)) ]]
  /\ out' = {}
  /\ last' = Step("roll", "accepted", s, g)
  /\ UNCHANGED <<dbGames, dbPoints, backgammonRooms, diceRooms, socketToGame,
                 members, connected, ledgerFailures>>

\* the insert rejects: the catch block answers the roller
RollLedgerFailed(i) ==
  LET h == hs[i] IN
  /\ Ready
  /\ h.pc \in {"roll_insert", "diceroll_insert"}
  /\ ledgerFailures < MaxLedgerFailures
  /\ ledgerFailures' = ledgerFailures + 1
  /\ out' = {ErrorMsg(h.sock, "Failed to roll dice")}
  /\ last' = Step("roll", "ledger_failed", h.sock, h.game)
  /\ hs' = [hs EXCEPT ![i] = Idle]
  /\ UNCHANGED <<dbGames, dbPoints, roomObjs, backgammonRooms, diceRooms,
                 socketToGame, members, connected, budget>>

\* the insert resolves: `await io.in(room).fetchSockets()`
RollFetchSockets(i) ==
  LET h == hs[i] IN
  /\ Ready
  /\ h.pc = "roll_insert"
  /\ hs' = [hs EXCEPT ![i] =
              [ pc |-> "roll_fetch", op |-> "roll", sock |-> h.sock,
                game |-> h.game, ref |-> h.ref,
                playerNumber |-> h.playerNumber, sockets |-> members[h.game] ]]
  /\ out' = {}
  /\ last' = Step("roll", "fetch", h.sock, h.game)
  /\ UNCHANGED <<dbGames, dbPoints, roomObjs, backgammonRooms, diceRooms,
                 socketToGame, members, connected, budget, ledgerFailures>>

\* dice-rolled (its copy of the rolled values is left out: nothing is
\* decided on it) and the personalised game-state to every fetched socket
RollBroadcast(i) ==
  LET h == hs[i]
      room == roomOf(h.game, h.ref)
  IN
  /\ Ready
  /\ h.pc = "roll_fetch"
  /\ out' = { [to |-> t, ev |-> "dice-rolled", game |-> h.game,
               player |-> h.playerNumber] : t \in h.sockets }
            \cup { GameStateMsg(t, h.game, room, TRUE) : t \in h.sockets }
  /\ last' = Step("roll", "broadcast", h.sock, h.game)
  /\ hs' = [hs EXCEPT ![i] = Idle]
  /\ UNCHANGED <<dbGames, dbPoints, roomObjs, backgammonRooms, diceRooms,
                 socketToGame, members, connected, budget, ledgerFailures>>

\* dice duel: the roll is processed, then `await db.insert(game_moves)`
RollDiceDuel(s, g, roll) ==
  /\ Ready
  /\ connected[s]
  /\ rollError(s, g) = ""
  /\ game_type(g) = "dice"
  /\ budget > 0
  /\ FreeSlots # {}
  /\ roomObjs' = [roomObjs EXCEPT ![g][roomRef(g)] =
                    [@ EXCEPT !.gameState =
                        processDiceRoll(@, playerNumberOf(g, userOf(s)), roll)]]
  /\ hs' = [hs EXCEPT ![NewSlot] =
              [ pc |-> "diceroll_insert", op |-> "roll", sock |-> s, game |-> g,
                ref |-> roomRef(g),
                playerNumber |-> playerNumberOf(g, userOf(s)),
                before |-> roomOf(g, roomRef(g)) ]]
  /\ budget' = budget - 1
  /\ out' = {}
  /\ last' = Step("roll", "accepted", s, g)
  /\ UNCHANGED <<dbGames, dbPoints, backgammonRooms, diceRooms, socketToGame,
                 members, connected, ledgerFailures>>

\* the points a completed dice duel awards
diceWinPoints == 10

\* the insert resolves and the room shows a winner: `await db.update(games)`
DiceWinSettle(i) ==
  LET h == hs[i]
      st == roomOf(h.game, h.ref).gameState
      winnerId == userOfPlayer(h.game, st.game_winner)
  IN
  /\ Ready
  /\ h.pc = "diceroll_insert"
  /\ st.game_winner # Null
  /\ dbGames' = settleGame(dbGames, h.game, winnerId, diceWinPoints)
  /\ hs' = [hs EXCEPT ![i] =
              [ pc |-> "dicewin_update", op |-> "roll", sock |-> h.sock,
                game |-> h.game, ref |-> h.ref, winnerId |-> winnerId,
                points |-> 0 ]]
  /\ out' = {}
  /\ last' = Step("roll", "win_settle", h.sock, h.game)
  /\ UNCHANGED <<dbPoints, roomObjs, backgammonRooms, diceRooms, socketToGame,
                 members, connected, budget, ledgerFailures>>

DiceWinReadWinner(i) ==
  LET h == hs[i] IN
  /\ Ready
  /\ h.pc = "dicewin_update"
  /\ hs' = [hs EXCEPT ![i] = [h EXCEPT !.pc = "dicewin_winner",
                                       !.points = dbPoints[h.winnerId]]]
  /\ out' = {}
  /\ last' = Step("roll", "win_read_winner", h.sock, h.game)
  /\ UNCHANGED <<dbGames, dbPoints, roomObjs, backgammonRooms, diceRooms,
                 socketToGame, members, connected, budget, ledgerFailures>>

DiceWinAward(i) ==
  LET h == hs[i] IN
  /\ Ready
  /\ h.pc = "dicewin_winner"
  /\ dbPoints' = awardPoints(dbPoints, h.winnerId, h.points, diceWinPoints)
  /\ hs' = [hs EXCEPT ![i] = [h EXCEPT !.pc = "dicewin_award"]]
  /\ out' = {}
  /\ last' = Step("roll", "win_award", h.sock, h.game)
  /\ UNCHANGED <<dbGames, roomObjs, backgammonRooms, diceRooms,
                 socketToGame, members, connected, budget, ledgerFailures>>

\* dice-game-over to the room, then diceRooms.delete
DiceWinFinish(i) ==
  LET h == hs[i]
      st == roomOf(h.game, h.ref).gameState
  IN
  /\ Ready
  /\ h.pc = "dicewin_award"
  /\ out' = { [ to |-> t, ev |-> "dice-game-over", game |-> h.game,
                winner |-> st.game_winner, winnerId |-> h.winnerId,
                reason |-> "" ] : t \in members[h.game] }
  /\ diceRooms' = [diceRooms EXCEPT ![h.game] = 0]
  /\ last' = Step("roll", "win_finish", h.sock, h.game)
  /\ hs' = [hs EXCEPT ![i] = Idle]
  /\ UNCHANGED <<dbGames, dbPoints, roomObjs, backgammonRooms, socketToGame,
                 members, connected, budget, ledgerFailures>>

\* the insert resolves with no winner: `await io.in(room).fetchSockets()`
DiceRollFetchSockets(i) ==
  LET h == hs[i]
      st == roomOf(h.game, h.ref).gameState
  IN
  /\ Ready
  /\ h.pc = "diceroll_insert"
  /\ st.game_winner = Null
  /\ hs' = [hs EXCEPT ![i] =
              [ pc |-> "diceroll_fetch", op |-> "roll", sock |-> h.sock,
                game |-> h.game, ref |-> h.ref,
                playerNumber |-> h.playerNumber, sockets |-> members[h.game] ]]
  /\ out' = {}
  /\ last' = Step("roll", "fetch", h.sock, h.game)
  /\ UNCHANGED <<dbGames, dbPoints, roomObjs, backgammonRooms, diceRooms,
                 socketToGame, members, connected, budget, ledgerFailures>>

DiceRollBroadcast(i) ==
  LET h == hs[i]
      room == roomOf(h.game, h.ref)
  IN
  /\ Ready
  /\ h.pc = "diceroll_fetch"
  /\ out' = { [to |-> t, ev |-> "dice-rolled", game |-> h.game,
               player |-> h.playerNumber,
               round |-> room.gameState.current_round] : t \in h.sockets }
            \cup { DiceStateMsg(t, h.game, room,
                     room.gameState.current_player
                        = playerNumberOf(h.game, userOf(t))) : t \in h.sockets }
  /\ last' = Step("roll", "broadcast", h.sock, h.game)
  /\ hs' = [hs EXCEPT ![i] = Idle]
  /\ UNCHANGED <<dbGames, dbPoints, roomObjs, backgammonRooms, diceRooms,
                 socketToGame, members, connected, budget, ledgerFailures>>

(***************************************************************************)
(* make-move                                                               *)
(***************************************************************************)
\* the move payloads tried: origins 'bar' and -1..24, destinations 'off' and
\* the points up to 7 below (or 1 above) the origin, for 'bar' 16..24
MoveFroms == {BAR} \cup (0 - 1)..24
MoveTos(from) ==
  {OFF} \cup (IF from = BAR THEN 16..24 ELSE {from - d : d \in (0 - 1)..7})

\* a die selection that takes a matching die even when it is marked used
selectDieIgnoresUsed(room, from, to, playerNumber) ==
  LET dice == room.dice IN
  IF from = BAR /\ to # OFF THEN
    IF to = (24 - dice[1]) - 1 THEN 1
    ELSE IF to = (24 - dice[2]) - 1 THEN 2
    ELSE 0
  ELSE IF to = OFF /\ from # BAR THEN
    LET pointNumber == from + 1
        higherDie == IF dice[1] > dice[2] THEN 1 ELSE 2
    IN IF pointNumber = dice[1] THEN 1
       ELSE IF pointNumber = dice[2] THEN 2
       ELSE IF /\ pointNumber < dice[higherDie]
               /\ \A i \in (from + 1)..5 : room.board.points[i][playerNumber] = 0
            THEN higherDie
       ELSE 0
  ELSE IF from # BAR /\ to # OFF THEN
    LET distance == from - to IN
      IF distance = dice[1] THEN 1
      ELSE IF distance = dice[2] THEN 2
      ELSE 0
  ELSE 0
\* "Determine which die to use": 1 or 2 for dice[0] / dice[1], 0 for
\* dieUsed === -1
selectDie(room, from, to, playerNumber) ==
  LET dice == room.dice
      used == room.diceUsed
  IN
  IF from = BAR /\ to # OFF THEN
    IF to = (24 - dice[1]) - 1 /\ ~used[1] THEN 1
    ELSE IF to = (24 - dice[2]) - 1 /\ ~used[2] THEN 2
    ELSE 0
  ELSE IF to = OFF /\ from # BAR THEN
    LET pointNumber == from + 1
        higherDie == IF dice[1] > dice[2] THEN 1 ELSE 2
    IN IF pointNumber = dice[1] /\ ~used[1] THEN 1
       ELSE IF pointNumber = dice[2] /\ ~used[2] THEN 2
       ELSE IF /\ ~used[higherDie]
               /\ pointNumber < dice[higherDie]
               /\ \A i \in (from + 1)..5 : room.board.points[i][playerNumber] = 0
            THEN higherDie
       ELSE 0
  ELSE IF from # BAR /\ to # OFF THEN
    LET distance == from - to IN
      IF distance = dice[1] /\ ~used[1] THEN 1
      ELSE IF distance = dice[2] /\ ~used[2] THEN 2
      ELSE 0
  ELSE 0

\* why the move is refused before its payload is looked at, "" when it is not
moveErrorEarly(s, g) ==
  IF g \notin Games \/ game_type(g) # "backgammon"
  THEN "Invalid game type for this action"
  ELSE IF backgammonRooms[g] = 0 THEN "Game room not found"
  ELSE LET room == roomOf(g, backgammonRooms[g]) IN
       IF room.currentPlayer # playerNumberOf(g, userOf(s)) THEN "Not your turn"
       ELSE IF room.dice = <<>> THEN "Must roll dice first"
       ELSE ""

\* why the payload is refused, "" when it is not
moveErrorPayload(room, from, to, playerNumber) ==
  LET dieUsed == selectDie(room, from, to, playerNumber) IN
    IF dieUsed = 0 THEN "Invalid move - dice value does not match"
    ELSE IF ~isValidMove(room.board, from, to, playerNumber, room.dice[dieUsed])
         THEN "Invalid move"
    ELSE ""

MoveRejectedEarly(s, g) ==
  /\ Ready
  /\ connected[s]
  /\ moveErrorEarly(s, g) # ""
  /\ out' = {ErrorMsg(s, moveErrorEarly(s, g))}
  /\ last' = Step("move", "rejected", s, g)
  /\ UNCHANGED <<dbGames, dbPoints, roomObjs, backgammonRooms, diceRooms,
                 socketToGame, members, connected, hs, budget, ledgerFailures>>

MoveRejectedPayload(s, g) ==
  /\ Ready
  /\ connected[s]
  /\ moveErrorEarly(s, g) = ""
  /\ \E from \in MoveFroms : \E to \in MoveTos(from) :
       LET message == moveErrorPayload(roomOf(g, backgammonRooms[g]), from, to,
                                       playerNumberOf(g, userOf(s)))
       IN /\ message # ""
          /\ out' = {ErrorMsg(s, message)}
  /\ last' = Step("move", "rejected", s, g)
  /\ UNCHANGED <<dbGames, dbPoints, roomObjs, backgammonRooms, diceRooms,
                 socketToGame, members, connected, hs, budget, ledgerFailures>>

\* the move is applied and its die marked used, then
\* `await db.insert(game_moves)`
MoveAccepted(s, g) ==
  /\ Ready
  /\ connected[s]
  /\ moveErrorEarly(s, g) = ""
  /\ budget > 0
  /\ FreeSlots # {}
  /\ \E from \in MoveFroms : \E to \in MoveTos(from) :
       LET ref == backgammonRooms[g]
           room == roomOf(g, ref)
           playerNumber == playerNumberOf(g, userOf(s))
           dieUsed == selectDie(room, from, to, playerNumber)
       IN /\ moveErrorPayload(room, from, to, playerNumber) = ""
          /\ roomObjs' = [roomObjs EXCEPT ![g][ref] =
                            [@ EXCEPT !.board = makeMove(room.board, from, to,
                                                  playerNumber, room.dice[dieUsed]),
                                      !.diceUsed = [room.diceUsed EXCEPT ![dieUsed] = TRUE]]]
          /\ hs' = [hs EXCEPT ![NewSlot] =
                      [ pc |-> "move_insert", op |-> "move", sock |-> s, game |-> g,
                        ref |-> ref, playerNumber |-> playerNumber,
                        before |-> room ]]
  /\ budget' = budget - 1
  /\ out' = {}
  /\ last' = Step("move", "accepted", s, g)
  /\ UNCHANGED <<dbGames, dbPoints, backgammonRooms, diceRooms, socketToGame,
                 members, connected, ledgerFailures>>

\* the insert rejects: the catch block answers the mover
MoveLedgerFailed(i) ==
  LET h == hs[i] IN
  /\ Ready
  /\ h.pc = "move_insert"
  /\ ledgerFailures < MaxLedgerFailures
  /\ ledgerFailures' = ledgerFailures + 1
  /\ out' = {ErrorMsg(h.sock, "Failed to make move")}
  /\ last' = Step("move", "ledger_failed", h.sock, h.game)
  /\ hs' = [hs EXCEPT ![i] = Idle]
  /\ UNCHANGED <<dbGames, dbPoints, roomObjs, backgammonRooms, diceRooms,
                 socketToGame, members, connected, budget>>

\* room.diceUsed.every(used => used)
allDiceUsed(room) == \A k \in 1..Len(room.diceUsed) : room.diceUsed[k]

\* a switch of player that clears the dice and leaves the used flags
switchPlayerKeepsFlags(room) ==
  [room EXCEPT !.currentPlayer = opponentOf(room.currentPlayer), !.dice = <<>>]

\* "Switch player"
switchPlayer(room) ==
  [room EXCEPT !.currentPlayer = opponentOf(room.currentPlayer),
               !.dice = <<>>, !.diceUsed = <<>>]

\* the room after "Check if all dice used or no moves available"
afterTurnCheck(room, playerNumber) ==
  IF allDiceUsed(room)
       \/ ~canPlayerMove(room.board, playerNumber, room.dice, room.diceUsed)
  THEN switchPlayer(room)
  ELSE room

\* the insert resolves but the room's dice were cleared meanwhile:
\* canPlayerMove throws, the catch block answers the mover
MoveTurnCheckThrows(i) ==
  LET h == hs[i]
      room == roomOf(h.game, h.ref)
  IN
  /\ Ready
  /\ h.pc = "move_insert"
  /\ canPlayerMoveThrows(room.board, h.playerNumber, room.dice, room.diceUsed)
  /\ out' = {ErrorMsg(h.sock, "Failed to make move")}
  /\ last' = Step("move", "turn_check_throws", h.sock, h.game)
  /\ hs' = [hs EXCEPT ![i] = Idle]
  /\ UNCHANGED <<dbGames, dbPoints, roomObjs, backgammonRooms, diceRooms,
                 socketToGame, members, connected, budget, ledgerFailures>>

\* the insert resolves, the turn check runs, nobody has won:
\* `await io.in(room).fetchSockets()`
MoveTurnCheck(i) ==
  LET h == hs[i]
      room == roomOf(h.game, h.ref)
      settled == afterTurnCheck(room, h.playerNumber)
  IN
  /\ Ready
  /\ h.pc = "move_insert"
  /\ ~canPlayerMoveThrows(room.board, h.playerNumber, room.dice, room.diceUsed)
  /\ checkWinCondition(settled.board) = Null
  /\ roomObjs' = [roomObjs EXCEPT ![h.game][h.ref] = settled]
  /\ hs' = [hs EXCEPT ![i] =
              [ pc |-> "move_fetch", op |-> "move", sock |-> h.sock,
                game |-> h.game, ref |-> h.ref, playerNumber |-> h.playerNumber,
                sockets |-> members[h.game] ]]
  /\ out' = {}
  /\ last' = Step("move", "turn_check", h.sock, h.game)
  /\ UNCHANGED <<dbGames, dbPoints, backgammonRooms, diceRooms, socketToGame,
                 members, connected, budget, ledgerFailures>>

\* the insert resolves, the turn check runs, a player has 15 borne off: the
\* win branch reads its block-scoped `winner` (declared further down by
\* `const [winner] = await ...`) before the declaration, a ReferenceError;
\* the catch block answers the mover and nothing of the branch runs
MoveWinThrows(i) ==
  LET h == hs[i]
      room == roomOf(h.game, h.ref)
      settled == afterTurnCheck(room, h.playerNumber)
  IN
  /\ Ready
  /\ h.pc = "move_insert"
  /\ ~canPlayerMoveThrows(room.board, h.playerNumber, room.dice, room.diceUsed)
  /\ checkWinCondition(settled.board) # Null
  /\ roomObjs' = [roomObjs EXCEPT ![h.game][h.ref] = settled]
  /\ out' = {ErrorMsg(h.sock, "Failed to make move")}
  /\ last' = Step("move", "win_throws", h.sock, h.game)
  /\ hs' = [hs EXCEPT ![i] = Idle]
  /\ UNCHANGED <<dbGames, dbPoints, backgammonRooms, diceRooms, socketToGame,
                 members, connected, budget, ledgerFailures>>

\* the personalised game-state to every fetched socket
MoveBroadcast(i) ==
  LET h == hs[i]
      room == roomOf(h.game, h.ref)
  IN
  /\ Ready
  /\ h.pc = "move_fetch"
  /\ out' = { GameStateMsg(t, h.game, room, TRUE) : t \in h.sockets }
  /\ last' = Step("move", "broadcast", h.sock, h.game)
  /\ hs' = [hs EXCEPT ![i] = Idle]
  /\ UNCHANGED <<dbGames, dbPoints, roomObjs, backgammonRooms, diceRooms,
                 socketToGame, members, connected, budget, ledgerFailures>>

(***************************************************************************)
(* Initial states and the next-state relation                              *)
(***************************************************************************)
\* one match is active, the other still pending; nobody has joined
InitFresh(active) ==
  /\ dbGames = [g \in Games |->
                  [ status |-> IF g = active THEN "active" ELSE "pending",
                    winner_id |-> NoUser, points_awarded |-> 0 ]]
  /\ dbPoints = [u \in Users |-> 0]
  /\ roomObjs = [g \in Games |-> <<>>]
  /\ backgammonRooms = [g \in Games |-> 0]
  /\ diceRooms = [g \in Games |-> 0]
  /\ socketToGame = [s \in Socks |-> NoGame]
  /\ members = [g \in Games |-> {}]
  /\ connected = [s \in Socks |-> TRUE]
  /\ hs = [i \in Slots |-> Idle]
  /\ out = {}
  /\ last = Quiet
  /\ budget = IF game_type(active) = "dice" THEN MaxRolls ELSE MaxActsFresh
  /\ ledgerFailures = 0

\* the active match has its room and both participants have joined it
InitPlaying(active, room, explored) ==
  /\ dbGames = [g \in Games |->
                  [ status |-> IF g = active THEN "active" ELSE "pending",
                    winner_id |-> NoUser, points_awarded |-> 0 ]]
  /\ dbPoints = [u \in Users |-> 0]
  /\ roomObjs = [g \in Games |-> IF g = active THEN <<room>> ELSE <<>>]
  /\ backgammonRooms =
       [g \in Games |-> IF g = active /\ game_type(g) = "backgammon" THEN 1 ELSE 0]
  /\ diceRooms =
       [g \in Games |-> IF g = active /\ game_type(g) = "dice" THEN 1 ELSE 0]
  /\ socketToGame = [s \in Socks |-> IF s \in {"s1", "s2"} THEN active ELSE NoGame]
  /\ members = [g \in Games |-> IF g = active THEN {"s1", "s2"} ELSE {}]
  /\ connected = [s \in Socks |-> TRUE]
  /\ hs = [i \in Slots |-> Idle]
  /\ out = {}
  /\ last = Quiet
  /\ budget = explored
  /\ ledgerFailures = 0

\* a freshly created room once player 1's roll, (3,1), has been taken up and
\* broadcast
openingRolledRoom ==
  [newBackgammonRoom EXCEPT !.dice = <<3, 1>>, !.diceUsed = <<FALSE, FALSE>>]
\* A board-game position late in a match, player 1 to roll: player 1 has
\* borne off 14 and keeps one checker on index 4, player 2 has borne off 13
\* and keeps two checkers on index 1.  The handlers reach it from the start
\* board by this play (dice, then the moves as from>to):
\*  P1 11 8>7 23>22; P2 56 17>11 18>13; P1 24 22>20 23>19; P2 24 17>15 18>14;
\*  P1 15 5>0 20>19; P2 24 6>4 13>9; P1 24 12>10 12>8; P2 33 4>1 14>11;
\*  P1 24 10>8 12>8; P2 15 3>2 11>6; P1 33 8>5 19>16; P2 15 9>4 4>3;
\*  P1 33 8>5 8>5; P2 33 18>15 18>15; P1 15 5>0 8>7; P2 15 6>1 18>17;
\*  P1 33 7>4 16>13; P2 15 3>2 15>10; P1 33 12>9 12>9; P2 24 3>1 10>6;
\*  P1 15 5>0 13>12; P2 24 15>13 17>13; P1 15 5>0 19>18; P2 24 13>11 15>11;
\*  P1 24 9>5 18>16; P2 15 2>1 11>6; P1 15 12>7 16>15; P2 15 3>2 11>6;
\*  P1 15 4>3 9>4; P2 15 6>1 11>10; P1 15 5>4 5>0; P2 24 6>2 13>11;
\*  P1 33 7>4 15>12; P2 15 2>1 11>6; P1 15 5>0 12>11; P2 15 2>1 6>1;
\*  P1 24 4>0 7>5; P2 15 6>1 10>9; P1 15 11>10 10>5; P2 24 6>2 9>7;
\*  P1 15 4>3 8>3; P2 16 2>1 7>1; P1 34 3>off 3>0; P2 14 2>1 6>2;
\*  P1 14 3>off 5>4; P2 33 6>3 6>3; P1 15 0>off 4>off; P2 24 1>off 3>off;
\*  P1 15 5>4 5>0; P2 24 1>off 3>off; P1 15 0>off 4>off; P2 23 1>off 2>off;
\*  P1 15 0>off 5>0; P2 22 1>off 1>off; P1 13 0>off; P2 12 1>off;
\*  P1 11 0>off 0>off; P2 22 1>off 1>off; P1 11 0>off 0>off; P2 12 1>off;
\*  P1 11 0>off 0>off; P2 11 1>0 0>off
lateBoard ==
  [ points    |-> [i \in PointIdx |->
                     CASE i = 4 -> <<1, 0>>
                       [] i = 1 -> <<0, 2>>
                       [] OTHER -> <<0, 0>>],
    bar       |-> <<0, 0>>,
    borne_off |-> <<14, 13>> ]
lateBackgammonRoom ==
  [ board |-> lateBoard, currentPlayer |-> 1, dice |-> <<>>, diceUsed |-> <<>> ]

\* that position once player 1's roll has been taken up and broadcast
lateRolledRoom(dice) ==
  [lateBackgammonRoom EXCEPT !.dice = dice, !.diceUsed = <<FALSE, FALSE>>]

\* that position one turn later (P1 11 4>3 3>2), player 2 to roll
lateSecondBoard ==
  [ points    |-> [i \in PointIdx |->
                     CASE i = 2 -> <<1, 0>>
                       [] i = 1 -> <<0, 2>>
                       [] OTHER -> <<0, 0>>],
    bar       |-> <<0, 0>>,
    borne_off |-> <<14, 13>> ]
lateSecondRoom ==
  [ board |-> lateSecondBoard, currentPlayer |-> 2, dice |-> <<>>, diceUsed |-> <<>> ]

\* The board after the first two turns of that play (P1 11 8>7 23>22;
\* P2 56 17>11 18>13), player 1 to roll: player 2 has single checkers on
\* indices 17, 13 and 11 within reach of player 1
earlyBoard ==
  [ points    |-> [i \in PointIdx |->
                     CASE i = 23 -> <<1, 0>>
                       [] i = 22 -> <<1, 0>>
                       [] i = 18 -> <<0, 4>>
                       [] i = 17 -> <<0, 1>>
                       [] i = 13 -> <<0, 1>>
                       [] i = 12 -> <<5, 0>>
                       [] i = 11 -> <<0, 1>>
                       [] i = 8  -> <<2, 0>>
                       [] i = 7  -> <<1, 0>>
                       [] i = 6  -> <<0, 5>>
                       [] i = 5  -> <<5, 0>>
                       [] i = 3  -> <<0, 3>>
                       [] OTHER  -> <<0, 0>>],
    bar       |-> <<0, 0>>,
    borne_off |-> <<0, 0>> ]
earlyBackgammonRoom ==
  [ board |-> earlyBoard, currentPlayer |-> 1, dice |-> <<>>, diceUsed |-> <<>> ]

\* The early board one turn later (P1 11 12>11 8>7): the move 12>11 has hit
\* player 2's single checker on index 11, which waits on the bar; player 2
\* to roll
barBoard == makeMove(makeMove(earlyBoard, 12, 11, 1, 1), 8, 7, 1, 1)
barBackgammonRoom ==
  [ board |-> barBoard, currentPlayer |-> 2, dice |-> <<>>, diceUsed |-> <<>> ]
\* Two boards from the bearing-off phase of that play, player 1 to roll.
\* After turn 44 player 1 is home and has borne off 1, player 2 still has
\* two checkers on index 6; after turn 46 both players are home.
outerBoard ==
  [ points    |-> [i \in PointIdx |->
                     CASE i = 0 -> <<8, 0>>
                       [] i = 1 -> <<0, 12>>
                       [] i = 2 -> <<0, 1>>
                       [] i = 3 -> <<1, 0>>
                       [] i = 4 -> <<1, 0>>
                       [] i = 5 -> <<4, 0>>
                       [] i = 6 -> <<0, 2>>
                       [] OTHER -> <<0, 0>>],
    bar       |-> <<0, 0>>,
    borne_off |-> <<1, 0>> ]
outerBackgammonRoom ==
  [ board |-> outerBoard, currentPlayer |-> 1, dice |-> <<>>, diceUsed |-> <<>> ]
homeBoard ==
  [ points    |-> [i \in PointIdx |->
                     CASE i = 0 -> <<8, 0>>
                       [] i = 1 -> <<0, 12>>
                       [] i = 2 -> <<0, 1>>
                       [] i = 3 -> <<0, 2>>
                       [] i = 4 -> <<2, 0>>
                       [] i = 5 -> <<3, 0>>
                       [] OTHER -> <<0, 0>>],
    bar       |-> <<0, 0>>,
    borne_off |-> <<2, 0>> ]
homeBackgammonRoom ==
  [ board |-> homeBoard, currentPlayer |-> 1, dice |-> <<>>, diceUsed |-> <<>> ]
\* A dice duel at 2:1 after three resolved rounds (player 1 won rounds 1 and
\* 2, player 2 round 3): round 4, started by player 2
lateDiceRoom ==
  [ gameState |->
      [ player1_score |-> 2, player2_score |-> 1, current_round |-> 4,
        player1_roll |-> Null, player2_roll |-> Null, current_player |-> 2,
        round_winner |-> Null, game_winner |-> Null ] ]

\* that round once player 2 has rolled a 3: player 1 to roll
lateDiceRolledRoom ==
  [ gameState |-> processDiceRoll(lateDiceRoom.gameState, 2, 3) ]

\* a match in progress: its room as created by the first join, or one of
\* the later positions
Init ==
  \/ InitPlaying("gA", newBackgammonRoom, MaxActsFresh)
  \/ InitPlaying("gA", openingRolledRoom, MaxActsFresh)
  \/ InitPlaying("gA", earlyBackgammonRoom, MaxActsFresh)
  \/ InitPlaying("gA", barBackgammonRoom, MaxActsFresh)
  \/ InitPlaying("gA", lateBackgammonRoom, MaxActs)
  \/ InitPlaying("gA", lateRolledRoom(<<1, 1>>), MaxActs)
  \/ InitPlaying("gA", lateSecondRoom, MaxActsFresh)
  \/ InitPlaying("gB", newDiceRoom, MaxRolls)
  \/ InitPlaying("gB", lateDiceRoom, MaxRolls)

\* matches in progress, explored less deeply where connections may close or
\* refused events are looked at
InitShallow ==
  \/ InitPlaying("gA", lateBackgammonRoom, MaxRollsForfeit)
  \/ InitPlaying("gA", lateRolledRoom(<<1, 1>>), MaxActsForfeit)
  \/ InitPlaying("gA", lateRolledRoom(<<5, 1>>), MaxActsForfeit)
  \/ InitPlaying("gB", newDiceRoom, MaxRollsForfeit)
  \/ InitPlaying("gB", lateDiceRolledRoom, MaxRollsForfeit)

\* nobody has joined yet
InitLobby == \E active \in Games : InitFresh(active)

\* the messages of the last step have been handed to the transport
Flush ==
  /\ ~Ready
  /\ last' = Quiet
  /\ out' = {}
  /\ UNCHANGED <<dbGames, dbPoints, roomObjs, backgammonRooms, diceRooms,
                 socketToGame, members, connected, hs, budget, ledgerFailures>>

\* rolls and moves that the handlers take up, and their continuations
Next ==
  \/ Flush
  \/ \E s \in Socks, g \in Games, dice \in rollDice : RollBackgammon(s, g, dice)
  \/ \E i \in Slots : RollLedgerFailed(i)
  \/ \E i \in Slots : RollFetchSockets(i)
  \/ \E i \in Slots : RollBroadcast(i)
  \/ \E s \in Socks, g \in Games, roll \in rollSingleDice : RollDiceDuel(s, g, roll)
  \/ \E i \in Slots : DiceWinSettle(i)
  \/ \E i \in Slots : DiceWinReadWinner(i)
  \/ \E i \in Slots : DiceWinAward(i)
  \/ \E i \in Slots : DiceWinFinish(i)
  \/ \E i \in Slots : DiceRollFetchSockets(i)
  \/ \E i \in Slots : DiceRollBroadcast(i)
  \/ \E s \in Socks, g \in Games : MoveAccepted(s, g)
  \/ \E i \in Slots : MoveLedgerFailed(i)
  \/ \E i \in Slots : MoveTurnCheckThrows(i)
  \/ \E i \in Slots : MoveTurnCheck(i)
  \/ \E i \in Slots : MoveWinThrows(i)
  \/ \E i \in Slots : MoveBroadcast(i)

\* the participants' connections may close
Disconnects ==
  \/ \E s \in Socks : DisconnectStart(s)
  \/ \E i \in Slots : DisconnectNoForfeit(i)
  \/ \E i \in Slots : DisconnectForfeit(i)
  \/ \E i \in Slots : DisconnectReadWinner(i)
  \/ \E i \in Slots : DisconnectAward(i)
  \/ \E i \in Slots : DisconnectFinish(i)

\* events the handlers answer with an error before touching anything
Rejections ==
  \/ \E s \in Socks, g \in GameIds : RollRejected(s, g)
  \/ \E s \in Socks, g \in GameIds : MoveRejectedEarly(s, g)
  \/ \E s \in Socks, g \in Games : MoveRejectedPayload(s, g)

\* joins, and the disconnect of a connection that joined nothing
Joins ==
  \/ \E s \in Socks, g \in GameIds : JoinStart(s, g)
  \/ \E i \in Slots : JoinRejected(i)
  \/ \E i \in Slots : JoinAccepted(i)
  \/ \E s \in Socks : DisconnectUntracked(s)

NextForfeit == Next \/ Disconnects

\* play between the two participants and the outsider, all connected
Spec == Init /\ [][Next]_vars

\* the same play with connections closing
SpecForfeit == InitShallow /\ [][NextForfeit]_vars

NextErrors == Next \/ Rejections

\* the same play with the events the handlers refuse
SpecErrors == InitShallow /\ [][NextErrors]_vars

NextLobby == Flush \/ Joins \/ Disconnects

\* connections joining and leaving before any roll
SpecLobby == InitLobby /\ [][NextLobby]_vars

(***************************************************************************)
(* The rule engine on its own: its functions applied to the board of a     *)
(* match, for either player and any die, outside the handlers' turn order. *)
(* `last` names the function applied and `out` holds its arguments.        *)
(***************************************************************************)
engineBoard == roomObjs["gA"][1].board

\* isValidMove judges the move legal for the die and makeMove applies it
EngineMove(player, from, to, diceValue) ==
  /\ budget > 0
  /\ isValidMove(engineBoard, from, to, player, diceValue)
  /\ roomObjs' = [roomObjs EXCEPT !["gA"][1].board =
                    makeMove(engineBoard, from, to, player, diceValue)]
  /\ budget' = budget - 1
  /\ out' = { [ to |-> "none", ev |-> "makeMove", board |-> engineBoard,
                player |-> player, origin |-> from, dest |-> to,
                diceValue |-> diceValue,
                boardAfter |-> inputAfterMakeMove(engineBoard, from, to,
                                                  player, diceValue) ] }
  /\ last' = Step("makeMove", "returned", "none", "gA")
  /\ UNCHANGED <<dbGames, dbPoints, backgammonRooms, diceRooms, socketToGame,
                 members, connected, hs, ledgerFailures>>

\* canPlayerMove finds no move for the roll: the player has to pass
EnginePass(player, dice) ==
  /\ budget > 0
  /\ ~canPlayerMove(engineBoard, player, dice, <<FALSE, FALSE>>)
  /\ budget' = budget - 1
  /\ out' = { [ to |-> "none", ev |-> "canPlayerMove", board |-> engineBoard,
                player |-> player, dice |-> dice, result |-> FALSE ] }
  /\ last' = Step("canPlayerMove", "returned", "none", "gA")
  /\ UNCHANGED <<dbGames, dbPoints, roomObjs, backgammonRooms, diceRooms,
                 socketToGame, members, connected, hs, ledgerFailures>>

\* the boards the engine is applied to: positions of the play above
InitEngine ==
  \E room \in { newBackgammonRoom, earlyBackgammonRoom, barBackgammonRoom,
                outerBackgammonRoom, homeBackgammonRoom, lateBackgammonRoom,
                lateSecondRoom } :
     InitPlaying("gA", room, MaxEngineCalls)

NextEngine ==
  \/ \E player \in Players, from \in MoveFroms, diceValue \in DieValues :
       \E to \in MoveTos(from) : EngineMove(player, from, to, diceValue)
  \/ \E player \in Players, dice \in rollDice : EnginePass(player, dice)

SpecEngine == InitEngine /\ [][NextEngine]_vars

(***************************************************************************)
(* Properties                                                              *)
(***************************************************************************)
Participants(g) == {player1_id(g), player2_id(g)}

\* pcs at which a handler waits for the store
StorePcs ==
  { "roll_insert", "diceroll_insert", "move_insert", "dicewin_update",
    "dicewin_winner", "dicewin_award", "disc_select", "disc_update",
    "disc_winner", "disc_award" }

\* handler i is suspended on a store call for match g
SuspendedOn(i, g) == hs[i].pc \in StorePcs /\ hs[i].game = g

\* the last step took up a roll or a move
Accepted(op) == last.op = op /\ last.section = "accepted"

\* C1: actions on one match are serialized: while a roll, move or disconnect
\* handler of a match is suspended on a store call, no section of any other
\* handler of that match runs (the only step taken for the match is the
\* suspended handler's own continuation).
C1_Serialized ==
  [][ last' # Quiet =>
        \A j \in Slots : SuspendedOn(j, last'.game) => hs'[j] # hs[j] ]_vars

RECURSIVE sumPoints(_, _, _)
sumPoints(points, player, n) ==
  IF n < 0 THEN 0 ELSE points[n][player] + sumPoints(points, player, n - 1)

checkersOf(board, player) ==
  sumPoints(board.points, player, 23) + board.bar[player] + board.borne_off[player]

\* C2: in every board of a board-game room, for each player the checkers on
\* the 24 points plus the bar count plus the borne-off count are 15.
C2_CheckerConservation ==
  \A g \in Games : \A k \in 1..Len(roomObjs[g]) :
     game_type(g) = "backgammon" =>
       \A player \in Players : checkersOf(roomObjs[g][k].board, player) = 15

\* a move has just been applied that hit a checker of player 2
C2_Witness ==
  /\ Accepted("move")
  /\ roomOf(last.game, backgammonRooms[last.game]).board.bar[2] = 1

\* handler i was waiting for its ledger insert and ends in this step
EndsAfterInsert(i) ==
  /\ hs[i].pc \in {"roll_insert", "diceroll_insert", "move_insert"}
  /\ hs'[i].pc = "idle"

\* C3: whenever a roll or move of a board-game room is answered with an
\* error message to the acting connection, the room's board, current player,
\* dice and used flags are what they were before that action, and only the
\* acting connection is sent anything.
C3_ErrorLeavesRoomUntouched ==
  [][ \A i \in Slots :
        ( /\ EndsAfterInsert(i)
          /\ game_type(hs[i].game) = "backgammon"
          /\ \E m \in out' : m.ev = "error" /\ m.to = hs[i].sock )
        => /\ roomObjs'[hs[i].game][hs[i].ref] = hs[i].before
           /\ \A m \in out' : m.to = hs[i].sock ]_vars

\* the board-game room a match id is mapped to
roomNow(g) == roomOf(g, backgammonRooms[g])

\* room's current player still has an unused die and a legal move for it
TurnOpen(room) ==
  /\ room.dice # <<>>
  /\ ~allDiceUsed(room)
  /\ canPlayerMove(room.board, room.currentPlayer, room.dice, room.diceUsed)

\* C4: the current player of a board-game room changes only when both dice
\* are used or the current player has no legal move with the unused die:
\* the turn never flips while an unused die and a legal move for it exist.
C4_TurnFlipsOnlyWhenDue ==
  [][ \A g \in Games :
        ( /\ game_type(g) = "backgammon"
          /\ backgammonRooms[g] # 0
          /\ backgammonRooms'[g] = backgammonRooms[g]
          /\ roomNow(g)'.currentPlayer # roomNow(g).currentPlayer )
        => ~TurnOpen(roomNow(g)) ]_vars

\* C5: a roll in a board-game room is taken up only from the current player
\* and with no dice active; it sets two dice in 1..6, both unused, and
\* leaves the board and the current player as they were.
C5_RollOnlyByCurrentPlayer ==
  [][ \A g \in Games :
        (Accepted("roll")' /\ last'.game = g /\ game_type(g) = "backgammon") =>
          /\ userOf(last'.sock) = userOfPlayer(g, roomNow(g).currentPlayer)
          /\ roomNow(g).dice = <<>>
          /\ roomNow(g)'.dice \in rollDice
          /\ roomNow(g)'.diceUsed = <<FALSE, FALSE>>
          /\ roomNow(g)'.board = roomNow(g).board
          /\ roomNow(g)'.currentPlayer = roomNow(g).currentPlayer ]_vars

\* C6: a move is taken up only from the current player and only while dice
\* are active.
C6_MoveOnlyByCurrentPlayer ==
  [][ \A g \in Games :
        (Accepted("move")' /\ last'.game = g) =>
          /\ userOf(last'.sock) = userOfPlayer(g, roomNow(g).currentPlayer)
          /\ roomNow(g).dice # <<>> ]_vars

\* C7: a roll or move sent by a user who is neither participant of the match
\* is not taken up and changes no room, in the board game and the dice duel.
C7_OutsiderChangesNothing ==
  [][ ( /\ last' # Quiet
        /\ last'.op \in {"roll", "move"}
        /\ userOf(last'.sock) \notin Participants(last'.game) )
      => /\ last'.section # "accepted"
         /\ roomObjs' = roomObjs ]_vars

\* the points a completed board game awards
backgammonWinPoints == 50

\* C8: when a move brings the mover's borne-off count to 15 (and its ledger
\* write succeeds), the handler of that move ends with the match completed
\* in the games table, won by the mover with 50 points, and with game-over
\* naming the mover sent to every connection in the match.
C8_WinEndsMatch ==
  [][ \A i \in Slots :
        ( /\ EndsAfterInsert(i)
          /\ hs[i].op = "move"
          /\ last'.section # "ledger_failed"
          /\ hs[i].before.board.borne_off[hs[i].playerNumber] < 15
          /\ roomObjs'[hs[i].game][hs[i].ref].board.borne_off[hs[i].playerNumber] = 15 )
        => LET g == hs[i].game
               mover == hs[i].playerNumber
           IN /\ dbGames'[g] = [ status |-> "completed",
                                 winner_id |-> userOfPlayer(g, mover),
                                 points_awarded |-> backgammonWinPoints ]
              /\ \A t \in members[g] :
                    \E m \in out' : m.to = t /\ m.ev = "game-over" /\ m.winner = mover
      ]_vars

\* the room a roll or move for g finds shows a finished match
RoomIsOver(g) ==
  IF game_type(g) = "dice"
  THEN roomOf(g, diceRooms[g]).gameState.game_winner # Null
  ELSE checkWinCondition(roomNow(g).board) # Null

\* C9: once a match has reached a terminal condition no later roll or move
\* for it is taken up.
C9_NothingAfterTerminal ==
  [][ \A g \in Games :
        (last'.section = "accepted" /\ last'.op \in {"roll", "move"} /\ last'.game = g)
          => ~RoomIsOver(g) ]_vars

\* the disconnect handler in slot i ends in this step, having read its match
\* as active
ForfeitEnds(i) ==
  /\ hs[i].pc \in {"disc_select", "disc_award"}
  /\ hs[i].pc = "disc_select" => hs[i].status = "active"
  /\ hs'[i].pc = "idle"

\* C10: when the connection of a participant of an active match closes, the
\* disconnect handler ends with the match completed in the games table, won
\* by the other participant with the forfeit points (20 board game, 10 dice
\* duel), with the over message (reason opponent_left) sent to the
\* connections still in the match, and with the room gone.
C10_DisconnectForfeits ==
  [][ \A i \in Slots :
        ForfeitEnds(i) =>
          LET g == hs[i].game
              winnerNumber == opponentOf(playerNumberOf(g, userOf(hs[i].sock)))
          IN /\ dbGames'[g] = [ status |-> "completed",
                                winner_id |-> userOfPlayer(g, winnerNumber),
                                points_awarded |-> forfeitPoints(g) ]
             /\ \A t \in members[g] :
                   \E m \in out' : /\ m.to = t
                                   /\ m.ev \in {"game-over", "dice-game-over"}
                                   /\ m.winner = winnerNumber
                                   /\ m.reason = "opponent_left"
             /\ backgammonRooms'[g] = 0 /\ diceRooms'[g] = 0 ]_vars

\* the join handler in slot i ends in this step
JoinEnds(i) == hs[i].pc = "join_select" /\ hs'[i].pc = "idle"

\* C11: a join for an unknown match, for a match that was not active when
\* the join's query ran, or by a caller who is not one of the match's two
\* participants is answered with an error: no room is created, the
\* connection is not recorded as joined (neither tracked nor in the match's
\* broadcast group) and no room changes.
C11_JoinRejected ==
  [][ \A i \in Slots :
        ( /\ JoinEnds(i)
          /\ \/ hs[i].game \notin Games
             \/ hs[i].status # "active"
             \/ userOf(hs[i].sock) \notin Participants(hs[i].game) )
        => /\ \E m \in out' : m.ev = "error" /\ m.to = hs[i].sock
           /\ roomObjs' = roomObjs
           /\ backgammonRooms' = backgammonRooms
           /\ diceRooms' = diceRooms
           /\ socketToGame' = socketToGame
           /\ members' = members ]_vars

\* the outsider's join for a match that has its room was just refused
C11_Witness ==
  /\ last.op = "join" /\ last.section = "rejected"
  /\ last.game \in Games
  /\ userOf(last.sock) \notin Participants(last.game)
  /\ roomRef(last.game) # 0

\* C12: while the current player has a checker on the bar, the only move
\* taken up is a bar re-entry (the mover's bar count goes down by one): no
\* move from a board point is accepted.
C12_BarEntryFirst ==
  [][ \A g \in Games :
        ( /\ Accepted("move")'
          /\ last'.game = g
          /\ roomNow(g).board.bar[roomNow(g).currentPlayer] > 0 )
        => roomNow(g)'.board.bar[roomNow(g).currentPlayer]
             = roomNow(g).board.bar[roomNow(g).currentPlayer] - 1 ]_vars

\* the unused dice of room that exceed pointNumber
OvershootDice(room, pointNumber) ==
  {k \in 1..2 : ~usedAt(room.diceUsed, k) /\ room.dice[k] > pointNumber}

\* C13: with no handler in flight, a bear-off by the turn owner from a home
\* point whose point-number equals neither rolled value is taken up and
\* consumes the larger unused die whenever some unused die exceeds the
\* point-number, all the player's checkers are home and none is on a higher
\* home point (also when the only unused die is the smaller rolled value,
\* and on a double).
C13_BearOffOvershoot ==
  \A g \in Games :
    ( /\ game_type(g) = "backgammon"
      /\ backgammonRooms[g] # 0
      /\ \A i \in Slots : hs[i].pc = "idle"
      /\ roomNow(g).dice # <<>> )
    => LET room == roomNow(g)
           player == room.currentPlayer
       IN \A from \in 0..5 :
            ( /\ room.board.points[from][player] > 0
              /\ allInHomeBoard(room.board, player)
              /\ from + 1 # room.dice[1] /\ from + 1 # room.dice[2]
              /\ OvershootDice(room, from + 1) # {}
              /\ \A i \in (from + 1)..5 : room.board.points[i][player] = 0 )
            => /\ moveErrorPayload(room, from, OFF, player) = ""
               /\ selectDie(room, from, OFF, player) \in OvershootDice(room, from + 1)
               /\ \A k \in OvershootDice(room, from + 1) :
                     room.dice[k] <= room.dice[selectDie(room, from, OFF, player)]

\* the payloads a caller may pass as a point index: the 24 points and the
\* two indices next to them
AnyIdx == (0 - 1)..24

C15_BearOffLegal ==
  \A player \in Players : \A from \in AnyIdx : \A d \in DieValues :
    isValidMove(engineBoard, from, OFF, player, d)
      <=> /\ \A j \in 6..23 : engineBoard.points[j][player] = 0
          /\ engineBoard.bar[player] = 0
          /\ from \in 0..5
          /\ engineBoard.points[from][player] >= 1
          /\ \/ from + 1 = d
             \/ /\ from + 1 < d
                /\ \A j \in (from + 1)..5 : engineBoard.points[j][player] = 0

\* a checker has just been borne off with a die above its point-number
C15_Witness ==
  /\ last.op = "makeMove"
  /\ \E m \in out : m.dest = OFF /\ m.origin + 1 < m.diceValue

\* C16: for every board, player, source, destination and die value, a
\* point-to-point move is legal iff both indices are in 0..23, the source
\* holds a checker of the player, the destination index is below the source
\* index, the destination holds at most 1 opposing checker and, when a die
\* value is supplied, source minus destination is the die value.
C16_PointMoveLegal ==
  \A player \in Players : \A from \in AnyIdx : \A to \in AnyIdx :
    \A d \in {NoDie} \cup DieValues :
      isValidMove(engineBoard, from, to, player, d)
        <=> /\ from \in 0..23 /\ to \in 0..23
            /\ engineBoard.points[from][player] >= 1
            /\ to < from
            /\ engineBoard.points[to][opponentOf(player)] <= 1
            /\ (d # NoDie => from - to = d)

\* player 2 has just moved a checker from one point to a lower one
C16_Witness ==
  /\ last.op = "makeMove"
  /\ \E m \in out : /\ m.player = 2
                    /\ m.origin \in PointIdx /\ m.dest \in PointIdx
                    /\ m.dest < m.origin

\* C17: applying a legal ordinary move or bar entry onto a point that holds
\* exactly one opposing checker sets that point's opposing count to 0,
\* raises the opponent's bar count by 1 and places the mover's checker
\* there; onto a point with no opposing checker it leaves every opposing
\* point count and the opponent's bar unchanged.
C17_HitSendsToBar ==
  [][ \A m \in out' :
        (m.ev = "makeMove" /\ m.dest # OFF) =>
          LET opp == opponentOf(m.player)
              result == engineBoard'
          IN /\ result.points[m.dest][m.player] =
                  m.board.points[m.dest][m.player] + 1
             /\ \A i \in PointIdx \ {m.dest} :
                   result.points[i][opp] = m.board.points[i][opp]
             /\ IF m.board.points[m.dest][opp] = 1
                THEN /\ result.points[m.dest][opp] = 0
                     /\ result.bar[opp] = m.board.bar[opp] + 1
                ELSE /\ result.points[m.dest][opp] = m.board.points[m.dest][opp]
                     /\ result.bar[opp] = m.board.bar[opp] ]_vars

\* a checker entering from the bar has just hit a single opposing checker
C17_Witness ==
  /\ last.op = "makeMove"
  /\ \E m \in out : /\ m.origin = BAR
                    /\ m.board.points[m.dest][opponentOf(m.player)] = 1
                    /\ engineBoard.bar[opponentOf(m.player)] =
                         m.board.bar[opponentOf(m.player)] + 1

\* some move of player is legal with die d: a bar entry when the player has
\* a checker on the bar, otherwise a point-to-point move or a bear-off
LegalWith(board, player, d) ==
  IF board.bar[player] > 0
  THEN \E to \in PointIdx : isValidMove(board, BAR, to, player, d)
  ELSE \E from \in PointIdx : \E to \in PointIdx \cup {OFF} :
          isValidMove(board, from, to, player, d)

\* C18: canPlayerMove(board, player, dice, used) is true iff there is an
\* unused die d and a move legal with d, bar entries only while the player
\* has a checker on the bar; it is false when checkers are on the bar and no
\* entry point for an unused die is open.
C18_CanPlayerMove ==
  \A player \in Players : \A dice \in rollDice :
    \A used \in {FALSE, TRUE} \X {FALSE, TRUE} :
      canPlayerMove(engineBoard, player, dice, used)
        <=> \E k \in 1..2 : ~used[k] /\ LegalWith(engineBoard, player, dice[k])

\* canPlayerMove has just found no move for a player who has a checker on
\* the bar and checkers on the points
C18_Witness ==
  /\ last.op = "canPlayerMove"
  /\ \E m \in out : /\ m.result = FALSE
                    /\ m.board.bar[m.player] > 0
                    /\ \E i \in PointIdx : m.board.points[i][m.player] > 0

\* C19: between a roll and the next turn flip at most two moves are taken
\* up, each consuming a different one of the two rolled dice.  Every move
\* taken up marks exactly one die that was unused and leaves the dice as
\* rolled; a used mark goes away only when the turn flips and the dice are
\* cleared; dice appear only by a roll on a room without dice, both unused.
\* So a roll, double or not, is followed by at most two moves before the
\* flip.
C19_TwoMovesPerRoll ==
  [][ \A g \in Games :
        ( /\ game_type(g) = "backgammon"
          /\ backgammonRooms[g] # 0
          /\ backgammonRooms'[g] = backgammonRooms[g] )
        => LET room == roomNow(g)
               next == roomNow(g)'
               flips == /\ next.currentPlayer # room.currentPlayer
                        /\ next.dice = <<>>
                        /\ next.diceUsed = <<>>
           IN /\ (Accepted("move")' /\ last'.game = g)
                   => /\ Len(room.dice) = 2 /\ next.dice = room.dice
                      /\ \E k \in 1..2 :
                            /\ ~room.diceUsed[k]
                            /\ next.diceUsed = [room.diceUsed EXCEPT ![k] = TRUE]
              /\ (\E k \in 1..Len(room.diceUsed) :
                     room.diceUsed[k] /\ ~usedAt(next.diceUsed, k))
                   => flips
              /\ next.dice # room.dice
                   => \/ flips
                      \/ /\ Accepted("roll")' /\ last'.game = g
                         /\ room.dice = <<>>
                         /\ next.dice \in rollDice
                         /\ next.diceUsed = <<FALSE, FALSE>> ]_vars

\* the second move after a double roll has just been taken up: both dice
\* are used
C19_Witness ==
  /\ Accepted("move")
  /\ roomNow(last.game).dice \in {<<d, d>> : d \in DieValues}
  /\ roomNow(last.game).diceUsed = <<TRUE, TRUE>>

\* the boards one and two moves into the opening (3,1): a checker of player 1
\* moved by 3, then a checker of player 1 moved by 1
OpeningFirstBoards ==
  { makeMove(initializeBoard, from, from - 3, 1, 3) :
      from \in {i \in PointIdx : initializeBoard.points[i][1] > 0} }
OpeningSecondBoards ==
  UNION { { makeMove(board, from, from - 1, 1, 1) :
              from \in {i \in PointIdx : board.points[i][1] > 0} } :
          board \in OpeningFirstBoards }

\* C20: from a fresh room with player 1's roll (3,1), whenever no handler is
\* in flight: on the start board every move of player 1 by 3 from a point
\* holding one of their checkers is taken up; once it is played player 1 is
\* still on turn and every move by 1 from a point holding one of their
\* checkers is taken up; once that is played, and before player 2 has
\* rolled, the current player is 2, no dice are active and a roll of player
\* 2 is taken up.
C20_OpeningTurn ==
  \A g \in Games :
    ( /\ game_type(g) = "backgammon"
      /\ backgammonRooms[g] # 0
      /\ \A i \in Slots : hs[i].pc = "idle" )
    => LET room == roomNow(g) IN
       /\ room = openingRolledRoom
            => \A from \in PointIdx :
                 room.board.points[from][1] > 0
                 => /\ moveErrorEarly("s1", g) = ""
                    /\ moveErrorPayload(room, from, from - 3, 1) = ""
       /\ ( /\ room.board \in OpeningFirstBoards
            /\ room.dice = <<3, 1>> /\ room.diceUsed = <<TRUE, FALSE>> )
            => /\ room.currentPlayer = 1
               /\ \A from \in PointIdx :
                    room.board.points[from][1] > 0
                    => /\ moveErrorEarly("s1", g) = ""
                       /\ moveErrorPayload(room, from, from - 1, 1) = ""
       /\ ( /\ room.board \in OpeningSecondBoards
            /\ \/ room.dice = <<>>
               \/ room.dice = <<3, 1>> /\ room.diceUsed = <<TRUE, TRUE>> )
            => /\ room.currentPlayer = 2
               /\ room.dice = <<>>
               /\ rollError("s2", g) = ""


\* the move lands on a single opposing checker
HitsBlot(board, to, player) ==
  to # OFF /\ board.points[to][opponentOf(player)] = 1

\* C21: makeMove never changes the board passed to it: after the call the
\* argument holds the points, bar and borne-off counts it held before; and
\* for every origin, destination, player and die the result differs from
\* the argument only in the mover's count at the origin point or bar, the
\* mover's count at the destination point or borne-off, and, on a hit, the
\* opponent's count at the destination and the opponent's bar.
C21_MakeMovePure ==
  /\ \A m \in out : m.ev = "makeMove" => m.boardAfter = m.board
  /\ \A player \in Players, from \in PointIdx \cup {BAR},
        to \in PointIdx \cup {OFF}, diceValue \in DieValues :
       LET board == engineBoard
           result == makeMove(board, from, to, player, diceValue)
           opp == opponentOf(player)
       IN /\ inputAfterMakeMove(board, from, to, player, diceValue) = board
          /\ \A i \in PointIdx :
               /\ result.points[i][player] # board.points[i][player]
                    => i = from \/ i = to
               /\ result.points[i][opp] # board.points[i][opp]
                    => i = to /\ HitsBlot(board, to, player)
          /\ result.bar[player] # board.bar[player] => from = BAR
          /\ result.bar[opp] # board.bar[opp] => HitsBlot(board, to, player)
          /\ result.borne_off[player] # board.borne_off[player] => to = OFF
          /\ result.borne_off[opp] = board.borne_off[opp]

\* a point-to-point move that hit has just been applied: the result differs
\* from the argument, which is as it was
C21_Witness ==
  /\ last.op = "makeMove"
  /\ \E m \in out : /\ m.origin # BAR
                    /\ HitsBlot(m.board, m.dest, m.player)
                    /\ m.boardAfter = m.board
                    /\ engineBoard # m.board


\* the dice-duel state of a match's room
duelNow(g) == roomOf(g, diceRooms[g]).gameState

\* the roll of `player` on state st completes the round: the other player's
\* roll is present, the player's own is not
CompletesRound(st, player) ==
  /\ st.game_winner = Null
  /\ (IF player = 1 THEN st.player1_roll ELSE st.player2_roll) = Null
  /\ (IF player = 1 THEN st.player2_roll ELSE st.player1_roll) # Null

\* the two rolls of the round that `roll` of `player` completes on st
RoundRolls(st, player, roll) ==
  IF player = 1 THEN <<roll, st.player2_roll>> ELSE <<st.player1_roll, roll>>

\* C22: when an accepted roll completes a dice-duel round with one player's
\* roll higher than the other's and nobody reaches 3 wins, then in the
\* resulting state the score of the player with the higher roll is one
\* higher, the other score is unchanged, round_winner is that player, the
\* round number is one higher and both rolls are unset.
C22_RoundWon ==
  [][ \A g \in Games :
        ( /\ game_type(g) = "dice"
          /\ diceRooms[g] # 0 /\ diceRooms'[g] = diceRooms[g]
          /\ Accepted("roll")' /\ last'.game = g )
        => \A player \in Players, roll \in DieValues :
             LET st == duelNow(g)
                 new == duelNow(g)'
                 rolls == RoundRolls(st, player, roll)
                 high == IF rolls[1] > rolls[2] THEN 1 ELSE 2
             IN ( /\ CompletesRound(st, player)
                  /\ new = processDiceRoll(st, player, roll)
                  /\ rolls[1] # rolls[2]
                  /\ new.game_winner = Null )
                => /\ new.player1_score =
                        st.player1_score + (IF high = 1 THEN 1 ELSE 0)
                   /\ new.player2_score =
                        st.player2_score + (IF high = 2 THEN 1 ELSE 0)
                   /\ new.round_winner = high
                   /\ new.current_round = st.current_round + 1
                   /\ new.player1_roll = Null /\ new.player2_roll = Null ]_vars


\* C26: when an accepted roll completes a dice-duel round with equal rolls,
\* neither score changes, round_winner records the tie (0), nobody becomes
\* the match winner, the round number is one higher and both rolls are
\* unset.
C26_RoundTied ==
  [][ \A g \in Games :
        ( /\ game_type(g) = "dice"
          /\ diceRooms[g] # 0 /\ diceRooms'[g] = diceRooms[g]
          /\ Accepted("roll")' /\ last'.game = g )
        => \A player \in Players, roll \in DieValues :
             LET st == duelNow(g)
                 new == duelNow(g)'
                 rolls == RoundRolls(st, player, roll)
             IN ( /\ CompletesRound(st, player)
                  /\ new = processDiceRoll(st, player, roll)
                  /\ rolls[1] = rolls[2] )
                => /\ new.player1_score = st.player1_score
                   /\ new.player2_score = st.player2_score
                   /\ new.game_winner = Null
                   /\ new.round_winner = 0
                   /\ new.current_round = st.current_round + 1
                   /\ new.player1_roll = Null /\ new.player2_roll = Null ]_vars


\* C23: in every dice-duel room ever created no score exceeds 3, the two
\* scores are never both 3, and game_winner is set exactly when a score is
\* 3, to the player who has it; while the room of a won match is still in
\* the session manager every roll for it is refused; and once no handler is
\* in flight a won match has been reported: its row is completed with the
\* winner and 10 points, the winner holds at least 10 points and the room
\* is gone.
C23_DuelWinner ==
  \A g \in Games : \A ref \in 1..Len(roomObjs[g]) :
    game_type(g) = "dice" =>
      LET st == roomObjs[g][ref].gameState
          winnerId == userOfPlayer(g, st.game_winner)
      IN /\ st.player1_score <= 3 /\ st.player2_score <= 3
         /\ ~(st.player1_score = 3 /\ st.player2_score = 3)
         /\ st.game_winner # Null
              <=> (st.player1_score = 3 \/ st.player2_score = 3)
         /\ st.game_winner = 1 => st.player1_score = 3
         /\ st.game_winner = 2 => st.player2_score = 3
         /\ (st.game_winner # Null /\ diceRooms[g] = ref)
              => \A s \in Socks : rollError(s, g) # ""
         /\ (st.game_winner # Null /\ \A i \in Slots : hs[i].pc = "idle")
              => /\ dbGames[g] = [ status |-> "completed",
                                   winner_id |-> winnerId,
                                   points_awarded |-> 10 ]
                 /\ dbPoints[winnerId] >= 10
                 /\ diceRooms[g] = 0


\* the roll slot of a player in a dice-duel state
rollOf(st, player) == IF player = 1 THEN st.player1_roll ELSE st.player2_roll

\* C24: in each dice-duel round two rolls are accepted, one from each
\* player.  Every accepted roll comes from a participant of the match who
\* is the current player and has not rolled in the round; when it is the
\* first roll of the round it only fills the roller's slot and passes the
\* turn to the other player (round, scores and winner untouched); a round
\* number, score or winner changes only by a roll made while the other
\* player's roll is present; and a roll by a participant whose slot is
\* filled is refused.
C24_TwoRollsPerRound ==
  [][ \A g \in Games :
        ( /\ game_type(g) = "dice"
          /\ diceRooms[g] # 0 /\ diceRooms'[g] = diceRooms[g] )
        => LET st == duelNow(g)
               new == duelNow(g)'
           IN /\ \A s \in {"s1", "s2"} :
                   rollOf(st, playerNumberOf(g, userOf(s))) # Null
                     => rollError(s, g) # ""
              /\ ( \/ new.current_round # st.current_round
                   \/ new.player1_score # st.player1_score
                   \/ new.player2_score # st.player2_score
                   \/ new.game_winner # st.game_winner )
                   => /\ Accepted("roll")' /\ last'.game = g
                      /\ rollOf(st, 1) # Null \/ rollOf(st, 2) # Null
              /\ (Accepted("roll")' /\ last'.game = g)
                   => LET userId == userOf(last'.sock)
                          player == playerNumberOf(g, userId)
                          other == opponentOf(player)
                      IN /\ userId \in Participants(g)
                         /\ st.current_player = player
                         /\ rollOf(st, player) = Null
                         /\ rollOf(st, other) = Null
                              => /\ rollOf(new, player) \in DieValues
                                 /\ new = [st EXCEPT
                                      !.player1_roll = rollOf(new, 1),
                                      !.player2_roll = rollOf(new, 2),
                                      !.current_player = other]
                                 /\ rollOf(new, other) = Null ]_vars


\* who starts a round: player 1 the odd rounds, player 2 the even ones
RoundStarter(round) == IF round % 2 = 0 THEN 2 ELSE 1

\* C25: a fresh dice duel is in round 1 with player 1 to roll, and whenever
\* an accepted roll completes a round without ending the match, the player
\* to roll in the new round is given by the new round number alone: player
\* 1 when it is odd, player 2 when it is even, whoever won the round; so
\* the starter alternates from round to round.
C25_StarterByParity ==
  [][ \A g \in Games :
        ( /\ game_type(g) = "dice"
          /\ diceRooms[g] # 0 /\ diceRooms'[g] = diceRooms[g] )
        => LET st == duelNow(g)
               new == duelNow(g)'
           IN /\ initializeDiceGame.current_player
                   = RoundStarter(initializeDiceGame.current_round)
              /\ new.current_round # st.current_round
                   => /\ new.current_round = st.current_round + 1
                      /\ new.game_winner = Null
                      /\ new.player1_roll = Null /\ new.player2_roll = Null
                      /\ new.current_player = RoundStarter(new.current_round)
                      /\ RoundStarter(new.current_round)
                           # RoundStarter(st.current_round) ]_vars

\* a round has just been completed and the new round is started by the player
\* who lost it
C25_Witness ==
  /\ Accepted("roll")
  /\ game_type(last.game) = "dice"
  /\ diceRooms[last.game] # 0
  /\ \E i \in Slots :
       /\ hs[i].pc = "diceroll_insert" /\ hs[i].sock = last.sock
       /\ hs[i].before.gameState.current_round + 1
            = duelNow(last.game).current_round
       /\ duelNow(last.game).current_player = hs[i].playerNumber
       /\ (IF hs[i].playerNumber = 1
           THEN duelNow(last.game).player2_score
                  > hs[i].before.gameState.player2_score
           ELSE duelNow(last.game).player1_score
                  > hs[i].before.gameState.player1_score)


\* C27: when the ledger write of an accepted roll or move fails, the handler
\* goes on as after a successful write: it is not abandoned, nothing is
\* reported to the caller as failed, and for a move the room becomes what the
\* turn check makes of it (the die stays used, the turn is flipped when
\* due), after which the win check and the broadcast follow.
C27_LedgerFailureHarmless ==
  [][ \A i \in Slots :
        ( /\ hs[i].pc \in {"roll_insert", "diceroll_insert", "move_insert"}
          /\ last'.section = "ledger_failed"
          /\ hs'[i] # hs[i] )
        => /\ hs'[i].pc # "idle"
           /\ \A m \in out' : m.ev # "error"
           /\ (hs[i].pc = "move_insert" /\ roomOf(hs[i].game, hs[i].ref).dice # <<>>)
                => roomOf(hs[i].game, hs[i].ref)'
                     = afterTurnCheck(roomOf(hs[i].game, hs[i].ref),
                                      hs[i].playerNumber) ]_vars

\* C28: every game-state message carries a room that results from a whole
\* number of completed actions: when it is sent, no move of that match has
\* changed the board without its turn check and win check having run.
C28_BroadcastSettled ==
  [][ \A m \in out' :
        m.ev = "game-state"
        => \A j \in Slots :
             ~(hs[j].pc = "move_insert" /\ hs[j].game = m.game) ]_vars


\* the my-turn flag of a state message and the player on turn in the room
\* state it carries
TurnFlag(m) == IF m.ev = "game-state" THEN m.canMove ELSE m.canRoll
TurnIn(m) ==
  IF m.ev = "game-state" THEN m.currentPlayer ELSE m.gameState.current_player
StateMsgs(msgs) == {m \in msgs : m.ev \in {"game-state", "dice-game-state"}}

\* C29: in the state messages broadcast after an accepted roll or move the
\* my-turn flag is true exactly for the recipient who is the room's current
\* player: the message carries the room's current player, its flag is true
\* if and only if the recipient is that participant, and the flags sent to
\* the two participants differ.
C29_TurnFlag ==
  [][ (last'.section = "broadcast" /\ last'.op \in {"roll", "move"})
      => /\ \A m \in StateMsgs(out') :
              /\ m.game = last'.game
              /\ userOf(m.to) \in Participants(m.game)
              /\ TurnFlag(m) <=> userOf(m.to) = userOfPlayer(m.game, TurnIn(m))
         /\ \A m1, m2 \in StateMsgs(out') :
              m1.to # m2.to => TurnFlag(m1) # TurnFlag(m2) ]_vars

\* a move that passed the turn has just been broadcast: player 2's
\* connection is told it may move, player 1's that it may not
C29_Witness ==
  /\ last.section = "broadcast" /\ last.op = "move"
  /\ \E m1, m2 \in StateMsgs(out) :
       /\ m1.to = "s1" /\ m2.to = "s2"
       /\ m1.currentPlayer = 2 /\ m2.currentPlayer = 2
       /\ ~m1.canMove /\ m2.canMove


\* C30: a room is created only by the first successful join of a match, in
\* the initial state.  A room object comes into being only in the step that
\* accepts a join of its match, only when no room was created for the match
\* before, and as the initial room of the match's kind (start board, player
\* 1 to roll, no dice; scores 0, round 1, player 1 to roll); a join accepted
\* while the match has a room leaves the room and the map entry as they
\* were.
C30_RoomCreation ==
  [][ \A g \in Games :
        /\ roomObjs'[g] # roomObjs[g]
             => /\ Accepted("join")' /\ last'.game = g
                /\ roomObjs[g] = <<>>
                /\ roomObjs'[g] = << IF game_type(g) = "dice"
                                     THEN newDiceRoom
                                     ELSE newBackgammonRoom >>
                /\ roomRef(g) = 0 /\ roomRef(g)' = 1
        /\ (Accepted("join")' /\ last'.game = g /\ roomRef(g) # 0)
             => /\ roomObjs'[g] = roomObjs[g]
                /\ roomRef(g)' = roomRef(g) ]_vars


\* the connection of the participant who plays as a player number
sockOfPlayer(player) == IF player = 1 THEN "s1" ELSE "s2"

\* some move payload of connection s would be taken up
SomeMoveAccepted(s, g) ==
  /\ moveErrorEarly(s, g) = ""
  /\ \E from \in MoveFroms : \E to \in MoveTos(from) :
       moveErrorPayload(roomNow(g), from, to, playerNumberOf(g, userOf(s))) = ""

\* C31: in every state of a board-game room without a winner and with no
\* handler in flight, the current player has an action that is taken up: a
\* roll, or at least one move.  (So a roll that leaves no legal move must
\* not leave the match waiting for a move, and whenever canPlayerMove keeps
\* the turn with the mover some move is taken up.)
C31_CurrentPlayerCanAct ==
  \A g \in Games :
    ( /\ game_type(g) = "backgammon"
      /\ backgammonRooms[g] # 0
      /\ \A i \in Slots : hs[i].pc = "idle"
      /\ checkWinCondition(roomNow(g).board) = Null )
    => LET s == sockOfPlayer(roomNow(g).currentPlayer)
       IN rollError(s, g) = "" \/ SomeMoveAccepted(s, g)


\* C32: a match is settled at most once.  Once the row of a match names a
\* winner it is never written again, and (one match being played in each
\* behaviour) points are added to a user only while no user has been
\* awarded any.
C32_AwardOnce ==
  [][ /\ \A g \in Games :
           dbGames[g].winner_id # NoUser => dbGames'[g] = dbGames[g]
      /\ dbPoints' # dbPoints => \A u \in Users : dbPoints[u] = 0 ]_vars


(***************************************************************************)
(* Two matches between the same two users, both active at once.            *)
(***************************************************************************)
\* both matches are in play: the dice duel stands 2:1 with player 2's 3 on
\* the table and player 1 to roll, the board match has just been created;
\* user 1's connection last joined the duel, user 2's the board match
InitOverlap ==
  /\ dbGames = [g \in Games |->
                  [ status |-> "active", winner_id |-> NoUser, points_awarded |-> 0 ]]
  /\ dbPoints = [u \in Users |-> 0]
  /\ roomObjs = [g \in Games |-> IF game_type(g) = "dice"
                                 THEN <<lateDiceRolledRoom>>
                                 ELSE <<newBackgammonRoom>>]
  /\ backgammonRooms = [g \in Games |-> IF game_type(g) = "backgammon" THEN 1 ELSE 0]
  /\ diceRooms = [g \in Games |-> IF game_type(g) = "dice" THEN 1 ELSE 0]
  /\ socketToGame = [s \in Socks |-> IF s = "s1" THEN "gB"
                                     ELSE IF s = "s2" THEN "gA" ELSE NoGame]
  /\ members = [g \in Games |-> {"s1", "s2"}]
  /\ connected = [s \in Socks |-> TRUE]
  /\ hs = [i \in Slots |-> Idle]
  /\ out = {}
  /\ last = Quiet
  /\ budget = MaxRollsForfeit
  /\ ledgerFailures = 0

\* rolls of the dice duel and their continuations, and connections closing
NextOverlap ==
  \/ Flush
  \/ \E s \in Socks, g \in Games, roll \in rollSingleDice : RollDiceDuel(s, g, roll)
  \/ \E i \in Slots : RollLedgerFailed(i)
  \/ \E i \in Slots : DiceWinSettle(i)
  \/ \E i \in Slots : DiceWinReadWinner(i)
  \/ \E i \in Slots : DiceWinAward(i)
  \/ \E i \in Slots : DiceWinFinish(i)
  \/ \E i \in Slots : DiceRollFetchSockets(i)
  \/ \E i \in Slots : DiceRollBroadcast(i)
  \/ Disconnects

\* the two matches played side by side
SpecOverlap == InitOverlap /\ [][NextOverlap]_vars

\* what the matches won by user u have recorded as awarded
RECURSIVE awardedTo(_, _)
awardedTo(u, gs) ==
  IF gs = {} THEN 0
  ELSE LET g == CHOOSE x \in gs : TRUE
       IN (IF dbGames[g].winner_id = u THEN dbGames[g].points_awarded ELSE 0)
            + awardedTo(u, gs \ {g})

\* C33: once a user has won both matches and every handler has finished,
\* the user's total holds at least the sum of the two awards: no
\* settlement has overwritten the points written by the other
C33_AwardsAdd ==
  \A u \in Users :
    ( /\ \A i \in Slots : hs[i].pc = "idle"
      /\ \A g \in Games : dbGames[g].status = "completed" /\ dbGames[g].winner_id = u )
    => dbPoints[u] >= awardedTo(u, Games)


(***************************************************************************)
(* The rule engine of services/gameService.ts, the file the handler's      *)
(* import path names: each player has a home quadrant of their own.        *)
(***************************************************************************)
\* isInHomeBoard: 18..23 for player 1, 0..5 for player 2
gameService_isInHomeBoard(pointIndex, player) ==
  IF player = 1 THEN pointIndex >= 18 /\ pointIndex <= 23
  ELSE pointIndex >= 0 /\ pointIndex <= 5

\* allInHomeBoard: no checker outside the player's home, none on the bar
gameService_allInHomeBoard(board, player) ==
  LET homeStart == IF player = 1 THEN 18 ELSE 0
      homeEnd == IF player = 1 THEN 23 ELSE 5
  IN /\ \A i \in PointIdx : (i < homeStart \/ i > homeEnd) => board.points[i][player] = 0
     /\ board.bar[player] = 0

\* isValidMove: player 1 enters on 0..5 and moves toward lower indices with
\* point-number 24 - index; player 2 enters on 18..23 and moves toward higher
\* indices with point-number index + 1
gameService_isValidMove(board, from, to, player, diceValue) ==
  IF from = BAR THEN
    /\ to # OFF
    /\ to >= (IF player = 1 THEN 0 ELSE 18) /\ to <= (IF player = 1 THEN 5 ELSE 23)
    /\ board.points[to][opponentOf(player)] <= 1
    /\ board.bar[player] # 0
    /\ (diceValue # NoDie =>
          (IF player = 1 THEN to + 1 ELSE 24 - to) = diceValue)
  ELSE IF to = OFF THEN
    /\ gameService_allInHomeBoard(board, player)
    /\ gameService_isInHomeBoard(from, player)
    /\ board.points[from][player] # 0
    /\ (diceValue # NoDie =>
          LET pointNumber == IF player = 1 THEN 24 - from ELSE from + 1 IN
            \/ pointNumber = diceValue
            \/ /\ pointNumber < diceValue
               /\ \A i \in (IF player = 1 THEN (from + 1)..23 ELSE 0..(from - 1)) :
                    board.points[i][player] = 0)
  ELSE
    /\ from >= 0 /\ from <= 23 /\ to >= 0 /\ to <= 23
    /\ board.points[from][player] # 0
    /\ (to - from) * (IF player = 1 THEN 0 - 1 ELSE 1) > 0
    /\ board.points[to][opponentOf(player)] <= 1
    /\ (diceValue # NoDie =>
          (IF to >= from THEN to - from ELSE from - to) = diceValue)

\* C34: every move for which the handler selects a die, for player 1 and
\* for player 2, is judged by the rule engine of the handler's import path
\* as the shared convention judges it (home 0..5, movement toward lower
\* indices, bar entry in 18..23, bear-off point-number index + 1)
C34_OneConvention ==
  \A g \in Games :
    (game_type(g) = "backgammon" /\ backgammonRooms[g] # 0 /\ roomNow(g).dice # <<>>)
    => \A player \in Players : \A from \in MoveFroms : \A to \in MoveTos(from) :
         LET room == roomNow(g)
             dieUsed == selectDie(room, from, to, player)
         IN dieUsed # 0 =>
              ( gameService_isValidMove(room.board, from, to, player, room.dice[dieUsed])
                <=> isValidMove(room.board, from, to, player, room.dice[dieUsed]) )


\* C35: whenever the player to move has a checker on the bar, every unused
\* die has a destination inside the entry band 18..23 for which the handler
\* selects a die of that value and which, when it holds at most one
\* opposing checker, is accepted as an entry
C35_EveryDieEnters ==
  \A g \in Games :
    ( /\ game_type(g) = "backgammon"
      /\ backgammonRooms[g] # 0
      /\ roomNow(g).dice # <<>>
      /\ roomNow(g).board.bar[roomNow(g).currentPlayer] > 0 )
    => LET room == roomNow(g)
           player == room.currentPlayer
       IN \A k \in 1..2 :
            ~room.diceUsed[k] =>
              \E to \in 18..23 :
                LET dieUsed == selectDie(room, BAR, to, player) IN
                  /\ dieUsed # 0
                  /\ room.dice[dieUsed] = room.dice[k]
                  /\ room.board.points[to][opponentOf(player)] <= 1
                       => isValidMove(room.board, BAR, to, player, room.dice[k])


\* both matches are active and nobody has joined either
InitLobbyBoth ==
  /\ dbGames = [g \in Games |->
                  [ status |-> "active", winner_id |-> NoUser, points_awarded |-> 0 ]]
  /\ dbPoints = [u \in Users |-> 0]
  /\ roomObjs = [g \in Games |-> <<>>]
  /\ backgammonRooms = [g \in Games |-> 0]
  /\ diceRooms = [g \in Games |-> 0]
  /\ socketToGame = [s \in Socks |-> NoGame]
  /\ members = [g \in Games |-> {}]
  /\ connected = [s \in Socks |-> TRUE]
  /\ hs = [i \in Slots |-> Idle]
  /\ out = {}
  /\ last = Quiet
  /\ budget = MaxRollsForfeit
  /\ ledgerFailures = 0

\* connections joining one match after the other, and leaving
SpecLobbyBoth == InitLobbyBoth /\ [][NextLobby]_vars

\* C36: when a connection closes, a run of the disconnect handler takes up
\* every active match the connection had joined, so that each of them is
\* forfeited
C36_AllJoinedForfeited ==
  [][ \A s \in Socks :
        (connected[s] /\ ~connected'[s])
        => \A g \in Games :
             (s \in members[g] /\ dbGames[g].status = "active")
             => \E i \in Slots :
                  /\ hs'[i].pc = "disc_select"
                  /\ hs'[i].sock = s
                  /\ hs'[i].game = g ]_vars

\* C37: in every board of a board-game room no point holds checkers of both
\* players: for each of the 24 points at least one of the two counts is 0
C37_NoSharedPoint ==
  \A g \in Games : \A k \in 1..Len(roomObjs[g]) :
     game_type(g) = "backgammon" =>
       \A i \in PointIdx :
         roomObjs[g][k].board.points[i][1] = 0 \/ roomObjs[g][k].board.points[i][2] = 0

\* a move has just landed on a point that held a single opposing checker:
\* the point now holds the mover's checker alone
C37_Witness ==
  /\ Accepted("move")
  /\ \E i \in Slots : \E to \in PointIdx :
       /\ hs[i].pc = "move_insert"
       /\ hs[i].game = last.game
       /\ LET player == hs[i].playerNumber
              opp == opponentOf(player)
              was == hs[i].before.board
              now == roomNow(last.game).board
          IN /\ was.points[to][opp] = 1
             /\ now.points[to][player] = was.points[to][player] + 1
             /\ now.points[to][opp] = 0


(***************************************************************************)
(* The end of a board match: player 1 one bear-off from 15, player 2 two.  *)
(***************************************************************************)
\* the late position once player 1's roll (5,1) has been taken up
InitEndgame == InitPlaying("gA", lateRolledRoom(<<5, 1>>), MaxActsEndgame)

\* rolls and moves of the board match and their continuations
NextBoard ==
  \/ Flush
  \/ \E s \in Socks, g \in Games, dice \in rollDice : RollBackgammon(s, g, dice)
  \/ \E i \in Slots : RollLedgerFailed(i)
  \/ \E i \in Slots : RollFetchSockets(i)
  \/ \E i \in Slots : RollBroadcast(i)
  \/ \E s \in Socks, g \in Games : MoveAccepted(s, g)
  \/ \E i \in Slots : MoveLedgerFailed(i)
  \/ \E i \in Slots : MoveTurnCheckThrows(i)
  \/ \E i \in Slots : MoveTurnCheck(i)
  \/ \E i \in Slots : MoveWinThrows(i)
  \/ \E i \in Slots : MoveBroadcast(i)

\* the last turns of a board match
SpecEndgame == InitEndgame /\ [][NextBoard]_vars

\* the counts of a board are in range and at most one player has 15 off
CountsInRange(board) ==
  /\ \A i \in PointIdx : \A player \in Players : board.points[i][player] >= 0
  /\ \A player \in Players :
       /\ board.bar[player] >= 0
       /\ board.borne_off[player] >= 0
       /\ board.borne_off[player] <= 15
  /\ ~(board.borne_off[1] = 15 /\ board.borne_off[2] = 15)

\* C38: after every step every point, bar and borne-off count of every
\* board is non-negative, each borne-off count is at most 15, no borne-off
\* count is lower than before the step, and the two players do not both
\* have 15 borne off
C38_CountsInRange ==
  [][ \A g \in Games : \A k \in 1..Len(roomObjs[g]) :
        game_type(g) = "backgammon" =>
          /\ CountsInRange(roomObjs'[g][k].board)
          /\ \A player \in Players :
               roomObjs'[g][k].board.borne_off[player]
                 >= roomObjs[g][k].board.borne_off[player] ]_vars


\* C39: in every board-game room the dice and the used flags agree: the
\* dice are null exactly when the used-flags array is empty, and dice that
\* are set are two values in 1..6 with exactly two used flags
C39_DiceAndFlagsAgree ==
  \A g \in Games : \A k \in 1..Len(roomObjs[g]) :
     game_type(g) = "backgammon" =>
       LET room == roomObjs[g][k] IN
         /\ room.dice = <<>> <=> room.diceUsed = <<>>
         /\ room.dice # <<>> =>
              /\ Len(room.dice) = 2
              /\ room.dice[1] \in DieValues /\ room.dice[2] \in DieValues
              /\ Len(room.diceUsed) = 2

\* the turn check of a move has just passed the turn: the dice that were set
\* when the move was taken up are null and the used flags are empty
C39_Witness ==
  /\ last.op = "move" /\ last.section = "turn_check"
  /\ roomNow(last.game).dice = <<>>
  /\ roomNow(last.game).diceUsed = <<>>


\* C40: in every dice-duel state without a game winner at most one of the
\* two roll slots is set and the current player's own slot is unset, so a
\* roll of the current player is never refused as already rolled
C40_CurrentPlayerHasNotRolled ==
  \A g \in Games : \A k \in 1..Len(roomObjs[g]) :
     (game_type(g) = "dice" /\ roomObjs[g][k].gameState.game_winner = Null) =>
       LET st == roomObjs[g][k].gameState IN
         /\ st.player1_roll = Null \/ st.player2_roll = Null
         /\ rollOf(st, st.current_player) = Null
         /\ diceRooms[g] = k =>
              \A s \in Socks :
                playerNumberOf(g, userOf(s)) = st.current_player
                  => rollError(s, g) # "You already rolled this round"

\* the first roll of a round has just been taken up: the roller's slot is
\* set, the turn is with the other player, whose slot is unset
C40_Witness ==
  /\ Accepted("roll")
  /\ game_type(last.game) = "dice"
  /\ LET st == duelNow(last.game)
         roller == playerNumberOf(last.game, userOf(last.sock))
     IN /\ st.game_winner = Null
        /\ rollOf(st, roller) # Null
        /\ st.current_player = opponentOf(roller)
        /\ rollOf(st, st.current_player) = Null

====
